---------------------------- MODULE Spec2Model ----------------------------
(***************************************************************************)
(* A model of the concurrent channel combinators of lock14/functional      *)
(* (package channel): the fan-out cloner Clone, the cancellable generator  *)
(* Generate with its stop function, the worker pools ParallelMap,          *)
(* ParallelFilter, ParallelMapWithErr and ParallelFilterWithErr, the       *)
(* sequential stages Map, Filter, MapWithErr, FilterWithErr, Distinct,     *)
(* Limit, TakeWhile and Sorted, the source Stream, the folds FoldLeft,     *)
(* FoldRight and JoinErrs, AllMatch and AnyMatch, Zip, Flatten and         *)
(* FlatMap, Partition and both versions of UnZip; and of Limit, Join,      *)
(* FoldRight and Concat of package iterator.                               *)
(*                                                                         *)
(* Every goroutine is a process with a program counter; every channel      *)
(* operation (send, receive, close) and every WaitGroup operation is one   *)
(* atomic step.  A send on an unbuffered channel and the receive that      *)
(* takes it are one step (the rendezvous).  Each combinator has its own    *)
(* group of variables and its own specification; a specification leaves   *)
(* the other groups untouched.                                             *)
(***************************************************************************)
EXTENDS Integers, Sequences, FiniteSets, Bags, TLC

(***************************************************************************)
(* Bounds of the model.                                                    *)
(***************************************************************************)
\* longest input sequence fed to Clone
MaxLen == 3
\* largest numClones passed to Clone
MaxClones == 2
\* most calls of a generator's stop function
MaxStops == 2
\* consumers receiving from a generator, and receives each of them makes
MaxConsumers == 2
MaxRecv == 1
\* longest input sequence fed to a worker pool
MaxParLen == 3
\* runtime.NumCPU(): the size of a worker pool
NumCPU == 2
\* longest slice given to FromSlice in front of a sequential stage
MaxSliceLen == 3
\* longest slice given to FromSlice in front of a fold
MaxFoldLen == 3
\* longest slice behind an input of Zip
MaxZipLen == 3
\* largest max given to Limit
MaxLimit == 2
\* most inner channels sent to Flatten, longest slice behind one
MaxInners == 2
MaxInnerLen == 2
\* longest slice in front of Partition, largest window size
MaxPartLen == 3
MaxSize == 2
\* longest sequence of pairs given to UnZip
MaxPairs == 2

\* the sequence 1, 2, ..., n: n pairwise different elements
Iota(n) == [k \in 1 .. n |-> k]

\* s is a prefix of t
IsPrefix(s, t) == Len(s) <= Len(t) /\ s = SubSeq(t, 1, Len(s))

(***************************************************************************)
(* Clone(channel, numClones)                                               *)
(*                                                                         *)
(*   input       the elements the input channel carries (FromSlice: a      *)
(*               buffered, already closed channel).  Clone is generic in   *)
(*               T and never inspects an element, so the elements are      *)
(*               taken pairwise different: any loss, duplication or        *)
(*               reordering shows                                          *)
(*   numClones   the second argument                                       *)
(*   active      the clones whose consumer receives (for t := range c);    *)
(*               the consumer of any other clone never receives            *)
(*   count       the reader's counter: elements received from the input    *)
(*   rpc, ri     the reader goroutine's position and its loop index i      *)
(*   waitGroups  waitGroups[i]: the counter of clone i's WaitGroup         *)
(*   orders      orders[i]: the content of the one-slot ticket channel     *)
(*   dpc, dheld  the delivery goroutine of clone i for sequence number s   *)
(*               (s = 0 for the first element): its position and the       *)
(*               ticket o it took                                          *)
(*   cpc         the closing goroutine of clone i                          *)
(*   closed      closed[i]: clones[i] has been closed                      *)
(*   got         got[i]: what the consumer of clone i has received         *)
(*   seenClosed  seenClosed[i]: that consumer's range loop has ended       *)
(*   clonePanic  a send on a closed clone or a second close happened       *)
(*                                                                         *)
(* The file ranges over an iter.Seq (Stream), so it is compiled as Go 1.23 *)
(* or later: i and t are fresh in every iteration, and each goroutine      *)
(* keeps the i and t of the iteration that spawned it.                     *)
(***************************************************************************)
VARIABLES input, numClones, active, count, rpc, ri, waitGroups, orders,
          dpc, dheld, cpc, closed, got, seenClosed, clonePanic

cloneVars == <<input, numClones, active, count, rpc, ri, waitGroups, orders,
               dpc, dheld, cpc, closed, got, seenClosed, clonePanic>>

(***************************************************************************)
(* Generate(supplier) and the stop function it returns                     *)
(*                                                                         *)
(*   keepGoing   the atomic.Bool                                           *)
(*   gpc         the generator goroutine: "load" (keepGoing.Load()),       *)
(*               "supply" (supplier()), "send" (c <- value), "close",      *)
(*               "done"                                                    *)
(*   supplied    how often supplier was called; the k-th call returns k    *)
(*   gval        the value the goroutine is sending                        *)
(*   gcloses     how often close(c) was executed                           *)
(*   stopCalls   how many calls of the stop function the program makes     *)
(*   spc, sres   call k of the stop function: "idle" (not called yet),     *)
(*               "recv" (flag cleared, receiving from c), "returned";      *)
(*               and what its receive got ("none" so far, "value" or       *)
(*               "closed")                                                 *)
(*   kpc         consumer j (a Limit stage, a range loop, a plain          *)
(*               receive): "idle" or "receiving"                           *)
(*   krecvs      the receives consumer j has completed                     *)
(*   kafter      consumer j's current or last receive started after a      *)
(*               call of stop had returned                                 *)
(*   kres        what consumer j's current or last receive got: "none" so  *)
(*               far, "value" or "closed"                                  *)
(*   kvalues     how many values consumer j has received                   *)
(***************************************************************************)
VARIABLES keepGoing, gpc, supplied, gval, gcloses, stopCalls, spc, sres,
          kpc, krecvs, kafter, kres, kvalues

genVars == <<keepGoing, gpc, supplied, gval, gcloses, stopCalls, spc, sres,
             kpc, krecvs, kafter, kres, kvalues>>

(***************************************************************************)
(* ParallelMap, ParallelFilter, ParallelMapWithErr, ParallelFilterWithErr  *)
(*                                                                         *)
(*   variant     which of the four functions was called                    *)
(*   pin         the elements the input channel carries, pairwise          *)
(*               different (the channel is closed after the last)          *)
(*   pnext       the position in pin of the next element a receive gets    *)
(*   drained     the outputs ("mapped", "errs") a consumer receives from   *)
(*   mpc, mi     the outer goroutine: "spawn" (the loop, at index mi),     *)
(*               "wait", "closeMapped", "closeErrs", "done"                *)
(*   waitGroup   the WaitGroup's counter                                   *)
(*   wpc         worker w: "none" (not spawned), "run" (in its loop),      *)
(*               "exit" (loop ended, Done deferred), "done"                *)
(*   wq          the sends worker w still makes for the element it holds,  *)
(*               each a pair <<output, value>>                             *)
(*   fcalls      fcalls[x]: how often the user function was applied to x   *)
(*   mappedGot   what the consumer of the success output has received      *)
(*   errsGot     what the consumer of the error output has received        *)
(*   mappedCloses, errsCloses   how often each output was closed           *)
(*   sentOnClosed  a send on a closed output happened                      *)
(***************************************************************************)
VARIABLES variant, pin, pnext, drained, mpc, mi, waitGroup, wpc, wq, fcalls,
          mappedGot, errsGot, mappedCloses, errsCloses, sentOnClosed

parVars == <<variant, pin, pnext, drained, mpc, mi, waitGroup, wpc, wq, fcalls,
             mappedGot, errsGot, mappedCloses, errsCloses, sentOnClosed>>

(***************************************************************************)
(* The sequential stages Map, Filter, MapWithErr, FilterWithErr, Distinct  *)
(* Limit, TakeWhile and Sorted: one goroutine that ranges over the input    *)
(* channel, and the FromSlice goroutine that feeds that channel.  Stream   *)
(* has no input channel: its goroutine ranges over a sequence, whose       *)
(* elements are those of slice.                                            *)
(*   stage         which function is running                               *)
(*   slice         the slice given to FromSlice                            *)
(*   fromNext      index of the next element FromSlice sends               *)
(*   channelCloses how often the input channel was closed                  *)
(*   inputClosedBy who closed the input channel: "none", "source", "stage" *)
(*   stpc          position of the stage's goroutine                       *)
(*   pending       sends the stage still has to make for the element held  *)
(*   calls         the elements f or p was applied to, in order            *)
(*   set           Distinct's set of elements seen                         *)
(*   consumed      the outputs that have a receiver                        *)
(*   outGot        values received from the success output, in order       *)
(*   errGot        values received from the error output, in order         *)
(*   outCloses     how often the success output was closed                 *)
(*   errCloses     how often the error output was closed                   *)
(*   toSliceDone   ToSlice on the success output has returned; AllMatch or *)
(*                 AnyMatch has returned                                   *)
(*   stagePanic    a send on a closed channel happened                     *)
(*   limitMax      Limit's argument max                                    *)
(*   limitCount    Limit's counter of the elements sent                    *)
(*   buf           Sorted's buffer of the elements received; for AllMatch  *)
(*                 and AnyMatch the one variable result of FoldLeft        *)
(***************************************************************************)
VARIABLES stage, slice, fromNext, channelCloses, inputClosedBy, stpc, pending,
          calls, set, consumed, outGot, errGot, outCloses, errCloses,
          toSliceDone, stagePanic, limitMax, limitCount, buf

\* Limit's argument max and its counter count
limitVars == <<limitMax, limitCount>>

stageVars == <<stage, slice, fromNext, channelCloses, inputClosedBy, stpc,
               pending, calls, set, consumed, outGot, errGot, outCloses,
               errCloses, toSliceDone, stagePanic, limitVars, buf>>

(***************************************************************************)
(* FoldLeft and FoldRight, called by the goroutine that wants the result,  *)
(* on a channel fed and closed by FromSlice.                               *)
(*   fold        which function is running                                 *)
(*   foldSlice   the slice given to FromSlice                              *)
(*   foldNext    index of the next element FromSlice sends                 *)
(*   foldCloses  how often the input channel was closed                    *)
(*   frames      the call stack: one record per call in progress, the      *)
(*               innermost last, with the element the call's loop holds    *)
(*               (0 when none) and the call's local variable result        *)
(*   applied     the argument pairs f was called with, in order            *)
(*   returned    the value returned by the outermost call (<<>> before)    *)
(*   maxFrames   the largest number of calls in progress so far            *)
(***************************************************************************)
VARIABLES fold, foldSlice, foldNext, foldCloses, frames, applied, returned,
          maxFrames

foldVars == <<fold, foldSlice, foldNext, foldCloses, frames, applied,
              returned, maxFrames>>

(***************************************************************************)
(* Zip: one goroutine that receives from chan1, then from chan2, and       *)
(* sends the pair.  Each input is fed and closed by FromSlice, or it is an *)
(* open channel on which nobody sends.                                     *)
(*   zip           "Zip" while Zip is modelled                             *)
(*   left, right   the slices behind chan1 and chan2                       *)
(*   leftNext, rightNext      index of the next element FromSlice sends    *)
(*   leftCloses, rightCloses  how often chan1, chan2 were closed           *)
(*   silent        the inputs (1, 2) that stay open with no sender         *)
(*   zpc           position of Zip's goroutine                             *)
(*   zt, ok1       result of the last receive from chan1                   *)
(*   zu, ok2       result of the last receive from chan2                   *)
(*   zipConsumed   somebody receives from zipped                           *)
(*   zippedGot     the pairs received from zipped, in order                *)
(*   zippedCloses  how often zipped was closed                             *)
(*   zipDone       ToSlice on zipped has returned                          *)
(***************************************************************************)
VARIABLES zip, left, right, leftNext, rightNext, leftCloses, rightCloses,
          silent, zpc, zt, ok1, zu, ok2, zipConsumed, zippedGot,
          zippedCloses, zipDone

zipVars == <<zip, left, right, leftNext, rightNext, leftCloses, rightCloses,
             silent, zpc, zt, ok1, zu, ok2, zipConsumed, zippedGot,
             zippedCloses, zipDone>>

(***************************************************************************)
(* Flatten: one goroutine that ranges over a channel of channels and, for  *)
(* each channel received, ranges over it and forwards its elements.  The   *)
(* outer channel and every inner channel are fed and closed by their own   *)
(* producers (FromSlice).                                                  *)
(*   flatten      "Flatten", or "FlatMap" (Flatten(Map(channel, f)): the   *)
(*                outer channel is fed and closed by Map, inner channel i  *)
(*                is the one f returns for the i-th element)               *)
(*   fcalled      FlatMap: how often Map has called f                      *)
(*   inners       inners[i]: the slice behind the i-th inner channel       *)
(*   outerNext    index of the next inner channel the outer producer sends *)
(*   outerCloses  how often the outer channel was closed                   *)
(*   innerNext    innerNext[i]: index of the next element of inner i       *)
(*   innerCloses  innerCloses[i]: how often inner channel i was closed     *)
(*   flpc         position of Flatten's goroutine                          *)
(*   cur          index of the inner channel it ranges over (0: none)      *)
(*   flheld       the element it holds to send on flat                     *)
(*   flatConsumed somebody receives from flat                              *)
(*   flatGot      what was received from flat, in order                    *)
(*   flatCloses   how often flat was closed                                *)
(*   flatDone     ToSlice on flat has returned                             *)
(*   flatPanic    a send on closed flat happened                           *)
(***************************************************************************)
VARIABLES flatten, inners, outerNext, outerCloses, innerNext, innerCloses,
          flpc, cur, flheld, flatConsumed, flatGot, flatCloses, flatDone,
          flatPanic, fcalled

flattenVars == <<flatten, inners, outerNext, outerCloses, innerNext,
                 innerCloses, flpc, cur, flheld, flatConsumed, flatGot,
                 flatCloses, flatDone, flatPanic, fcalled>>

(***************************************************************************)
(* Partition(channel, size): one goroutine that ranges over the input,     *)
(* sends the elements on the current window channel and sends a window     *)
(* channel on the outer channel when it is full.  The input is fed and     *)
(* closed by FromSlice; the consumer ranges over the outer channel and     *)
(* over each window it receives.  The Partition of channel.go returns a    *)
(* chan []T: its windows are slices, the goroutine appends the elements to *)
(* the current slice and sends the slice when it is full.                  *)
(*   part          "Partition" (windows are channels) or "PartitionSlice"  *)
(*                 (windows are slices) while Partition is modelled        *)
(*   partSlice     the slice given to FromSlice                            *)
(*   partNext      index of the next element FromSlice sends               *)
(*   partInCloses  how often the input channel was closed                  *)
(*   size          the second argument                                     *)
(*   pcount        the goroutine's variable count                          *)
(*   ppc           position of the goroutine                               *)
(*   pheld         the element t of the current iteration                  *)
(*   windows       one record per window made, the current one (the        *)
(*                 variable partition, or slice) last: whether it was      *)
(*                 handed to the consumer, how often it was closed, and    *)
(*                 what was received from it (a channel) or appended to    *)
(*                 it (a slice)                                            *)
(*   partitionedCloses  how often the outer channel was closed             *)
(*   partConsumed  a consumer exists                                       *)
(*   conspc, cwin  the consumer's position, and the window it ranges over  *)
(*   partPanic     a send on a closed channel or a second close happened   *)
(***************************************************************************)
VARIABLES part, partSlice, partNext, partInCloses, size, pcount, ppc, pheld,
          windows, partitionedCloses, partConsumed, conspc, cwin, partPanic

partVars == <<part, partSlice, partNext, partInCloses, size, pcount, ppc,
              pheld, windows, partitionedCloses, partConsumed, conspc, cwin,
              partPanic>>

(***************************************************************************)
(* UnZip(channel): Clone(channel, 2) and two goroutines, each ranging over *)
(* one clone and sending one component of every pair on its output.  The   *)
(* two goroutines are the consumers of the clones: the variables of Clone  *)
(* describe the cloning, got[i] what goroutine i has received.             *)
(*   unzip     "UnZip" while UnZip is modelled; "Sequential" for the UnZip *)
(*             of channel.go, which is one goroutine that ranges over the  *)
(*             input and sends both components itself (fwdpc has one       *)
(*             entry, the Clone variables input and count are its input    *)
(*             and the number of pairs received)                           *)
(*   uzActive  the outputs (1: ts, 2: us) that have a receiver; the        *)
(*             consumer of ts alone may turn to us once ts is closed       *)
(*   uzSent    uzSent[i]: what was received from output i, in order        *)
(*   fwdpc     fwdpc[i]: position of the goroutine that feeds output i     *)
(*   uzCloses  uzCloses[i]: how often output i was closed                  *)
(*   uzPanic   a send on a closed output or a second close happened        *)
(***************************************************************************)
VARIABLES unzip, uzActive, uzSent, fwdpc, uzCloses, uzPanic

unzipVars == <<unzip, uzActive, uzSent, fwdpc, uzCloses, uzPanic>>

(***************************************************************************)
(* Package iterator: functions over pull sequences (iter.Seq).  A sequence *)
(* is a function that calls yield once per element and stops when yield    *)
(* returns false; the source is slices.Values of a slice.  There is one    *)
(* goroutine; a step is one iteration of the function's loop.              *)
(*   iter        which function is running                                 *)
(*   itSeq       the slice behind the source sequence                      *)
(*   itArgs      the other arguments (max of Limit, sep of Join, u of      *)
(*               FoldRight, the slice behind itr2 of Concat)               *)
(*   itNext      index of the next element the source passes to the loop   *)
(*   ipc         "loop" while the function's loop runs, then "done";       *)
(*               "loop2" in Concat's second loop; "overflow" when          *)
(*               FoldRight has exhausted the stack                         *)
(*   itLocals    the local variables (count; first and result; for         *)
(*               FoldRight the calls in progress, innermost last, and the  *)
(*               number of calls of f)                                     *)
(*   yielded     the elements passed to the consumer's yield, in order     *)
(*   stopAt      the consumer's yield returns false at its stopAt-th call  *)
(*               (0: it always returns true, as slices.Collect does)       *)
(*   itReturned  the value returned by a function that returns one         *)
(***************************************************************************)
VARIABLES iter, itSeq, itArgs, itNext, ipc, itLocals, yielded, stopAt,
          itReturned

iterVars == <<iter, itSeq, itArgs, itNext, ipc, itLocals, yielded, stopAt,
              itReturned>>

vars == <<cloneVars, genVars, parVars, stageVars, foldVars, zipVars, flattenVars, partVars, unzipVars, iterVars>>

\* what the steps of one combinator leave alone: the other combinators
notCloneVars == <<genVars, parVars, stageVars, foldVars, zipVars, flattenVars, partVars, unzipVars, iterVars>>
notGenVars == <<cloneVars, parVars, stageVars, foldVars, zipVars, flattenVars, partVars, unzipVars, iterVars>>
notParVars == <<cloneVars, genVars, stageVars, foldVars, zipVars, flattenVars, partVars, unzipVars, iterVars>>
notStageVars == <<cloneVars, genVars, parVars, foldVars, zipVars, flattenVars, partVars, unzipVars, iterVars>>
notFoldVars == <<cloneVars, genVars, parVars, stageVars, zipVars, flattenVars, partVars, unzipVars, iterVars>>
notZipVars == <<cloneVars, genVars, parVars, stageVars, foldVars, flattenVars, partVars, unzipVars, iterVars>>
notFlattenVars == <<cloneVars, genVars, parVars, stageVars, foldVars, zipVars, partVars, unzipVars, iterVars>>
notPartVars == <<cloneVars, genVars, parVars, stageVars, foldVars, zipVars, flattenVars, unzipVars, iterVars>>
notUnZipVars == <<cloneVars, genVars, parVars, stageVars, foldVars, zipVars, flattenVars, partVars, iterVars>>
notIterVars == <<cloneVars, genVars, parVars, stageVars, foldVars, zipVars, flattenVars, partVars, unzipVars>>

(***************************************************************************)
(* The variables of a combinator that is not running.                      *)
(***************************************************************************)
\* the variables of Clone while another combinator is modelled
CloneIdle ==
    /\ input = <<>>
    /\ numClones = 0
    /\ active = {}
    /\ count = 0
    /\ rpc = "idle"
    /\ ri = 0
    /\ waitGroups = <<>>
    /\ orders = <<>>
    /\ dpc = <<>>
    /\ dheld = <<>>
    /\ cpc = <<>>
    /\ closed = <<>>
    /\ got = <<>>
    /\ seenClosed = <<>>
    /\ clonePanic = FALSE

\* the variables of Generate while another combinator is modelled
GenIdle ==
    /\ keepGoing = FALSE
    /\ gpc = "idle"
    /\ supplied = 0
    /\ gval = 0
    /\ gcloses = 0
    /\ stopCalls = 0
    /\ spc = <<>>
    /\ sres = <<>>
    /\ kpc = <<>>
    /\ krecvs = <<>>
    /\ kafter = <<>>
    /\ kres = <<>>
    /\ kvalues = <<>>

\* the variables of the worker pools while another combinator is modelled
ParIdle ==
    /\ variant = "none"
    /\ pin = <<>>
    /\ pnext = 0
    /\ drained = {}
    /\ mpc = "idle"
    /\ mi = 0
    /\ waitGroup = 0
    /\ wpc = <<>>
    /\ wq = <<>>
    /\ fcalls = <<>>
    /\ mappedGot = <<>>
    /\ errsGot = <<>>
    /\ mappedCloses = 0
    /\ errsCloses = 0
    /\ sentOnClosed = FALSE

\* the variables of the sequential stages while another combinator is modelled
StageIdle ==
    /\ stage = "none"
    /\ slice = <<>>
    /\ fromNext = 0
    /\ channelCloses = 0
    /\ inputClosedBy = "none"
    /\ stpc = "idle"
    /\ pending = <<>>
    /\ calls = <<>>
    /\ set = {}
    /\ consumed = {}
    /\ outGot = <<>>
    /\ errGot = <<>>
    /\ outCloses = 0
    /\ errCloses = 0
    /\ toSliceDone = FALSE
    /\ stagePanic = FALSE
    /\ limitMax = 0
    /\ limitCount = 0
    /\ buf = <<>>


\* the variables of the folds while another combinator is modelled
FoldIdle ==
    /\ fold = "none"
    /\ foldSlice = <<>>
    /\ foldNext = 0
    /\ foldCloses = 0
    /\ frames = <<>>
    /\ applied = <<>>
    /\ returned = <<>>
    /\ maxFrames = 0

\* the variables of Zip while another combinator is modelled
ZipIdle ==
    /\ zip = "none"
    /\ left = <<>>
    /\ right = <<>>
    /\ leftNext = 0
    /\ rightNext = 0
    /\ leftCloses = 0
    /\ rightCloses = 0
    /\ silent = {}
    /\ zpc = "idle"
    /\ zt = 0
    /\ ok1 = FALSE
    /\ zu = 0
    /\ ok2 = FALSE
    /\ zipConsumed = FALSE
    /\ zippedGot = <<>>
    /\ zippedCloses = 0
    /\ zipDone = FALSE

\* the variables of Flatten while another combinator is modelled
FlattenIdle ==
    /\ flatten = "none"
    /\ inners = <<>>
    /\ outerNext = 0
    /\ outerCloses = 0
    /\ innerNext = <<>>
    /\ innerCloses = <<>>
    /\ flpc = "idle"
    /\ cur = 0
    /\ flheld = 0
    /\ flatConsumed = FALSE
    /\ flatGot = <<>>
    /\ flatCloses = 0
    /\ flatDone = FALSE
    /\ flatPanic = FALSE
    /\ fcalled = 0

\* the variables of Partition while another combinator is modelled
PartIdle ==
    /\ part = "none"
    /\ partSlice = <<>>
    /\ partNext = 0
    /\ partInCloses = 0
    /\ size = 0
    /\ pcount = 0
    /\ ppc = "idle"
    /\ pheld = 0
    /\ windows = <<>>
    /\ partitionedCloses = 0
    /\ partConsumed = FALSE
    /\ conspc = "idle"
    /\ cwin = 0
    /\ partPanic = FALSE

\* the variables of UnZip while another combinator is modelled
UnZipIdle ==
    /\ unzip = "none"
    /\ uzActive = {}
    /\ uzSent = <<>>
    /\ fwdpc = <<>>
    /\ uzCloses = <<>>
    /\ uzPanic = FALSE

\* the variables of package iterator while another combinator is modelled
IterIdle ==
    /\ iter = "none"
    /\ itSeq = <<>>
    /\ itArgs = <<>>
    /\ itNext = 0
    /\ ipc = "idle"
    /\ itLocals = <<>>
    /\ yielded = <<>>
    /\ stopAt = 0
    /\ itReturned = <<>>

(***************************************************************************)
(* Clone: the reader goroutine, the delivery goroutines, the closers.      *)
(***************************************************************************)
CloneIds == 1 .. numClones
\* sequence numbers of the elements of the input: the values count takes
Orders == 0 .. (Len(input) - 1)

CloneStart ==
    /\ input \in {Iota(n) : n \in 0 .. MaxLen}
    /\ numClones \in 1 .. MaxClones
    /\ active \in SUBSET (1 .. numClones)
    /\ count = 0
    /\ rpc = "range"
    /\ ri = 1
    /\ waitGroups = [i \in 1 .. numClones |-> 0]
    /\ orders = [i \in 1 .. numClones |-> <<0>>]
    /\ dpc = [i \in 1 .. numClones |-> [s \in 0 .. (Len(input) - 1) |-> "none"]]
    /\ dheld = [i \in 1 .. numClones |-> [s \in 0 .. (Len(input) - 1) |-> 0]]
    /\ cpc = [i \in 1 .. numClones |-> "none"]
    /\ closed = [i \in 1 .. numClones |-> FALSE]
    /\ got = [i \in 1 .. numClones |-> <<>>]
    /\ seenClosed = [i \in 1 .. numClones |-> FALSE]
    /\ clonePanic = FALSE

\* mutation of ReaderRecv: the reader receives the next element only when
\* the delivery goroutines of the elements before it have returned
ReaderRecvWaits ==
    /\ rpc = "range"
    /\ count < Len(input)
    /\ \A i \in CloneIds : waitGroups[i] = 0
    /\ rpc' = "spawn"
    /\ ri' = 1
    /\ UNCHANGED notCloneVars
    /\ UNCHANGED <<input, numClones, active, count, waitGroups, orders, dpc,
                   dheld, cpc, closed, got, seenClosed, clonePanic>>

\* for t := range channel: the reader receives the next element
ReaderRecv ==
    /\ rpc = "range"
    /\ count < Len(input)
    /\ rpc' = "spawn"
    /\ ri' = 1
    /\ UNCHANGED notCloneVars
    /\ UNCHANGED <<input, numClones, active, count, waitGroups, orders, dpc,
                   dheld, cpc, closed, got, seenClosed, clonePanic>>

\* the input is exhausted and closed: the range loop ends
ReaderEnd ==
    /\ rpc = "range"
    /\ count = Len(input)
    /\ rpc' = "closers"
    /\ ri' = 1
    /\ UNCHANGED notCloneVars
    /\ UNCHANGED <<input, numClones, active, count, waitGroups, orders, dpc,
                   dheld, cpc, closed, got, seenClosed, clonePanic>>

\* waitGroups[i].Add(1); go func(order uint64){...}(count); after the last
\* clone, count++
ReaderSpawn ==
    /\ rpc = "spawn"
    /\ waitGroups' = [waitGroups EXCEPT ![ri] = @ + 1]
    /\ dpc' = [dpc EXCEPT ![ri][count] = "take"]
    /\ IF ri < numClones
          THEN /\ ri' = ri + 1
               /\ UNCHANGED <<rpc, count>>
          ELSE /\ ri' = 1
               /\ rpc' = "range"
               /\ count' = count + 1
    /\ UNCHANGED notCloneVars
    /\ UNCHANGED <<input, numClones, active, orders, dheld, cpc, closed, got,
                   seenClosed, clonePanic>>

\* go func() { waitGroups[i].Wait(); close(clones[i]) }()
ReaderSpawnCloser ==
    /\ rpc = "closers"
    /\ cpc' = [cpc EXCEPT ![ri] = "wait"]
    /\ IF ri < numClones
          THEN /\ ri' = ri + 1
               /\ rpc' = rpc
          ELSE /\ ri' = 1
               /\ rpc' = "done"
    /\ UNCHANGED notCloneVars
    /\ UNCHANGED <<input, numClones, active, count, waitGroups, orders, dpc,
                   dheld, closed, got, seenClosed, clonePanic>>

\* mutation of Take: any ticket lets the task through (the comparison with
\* order is lost)
TakeAnyTicket(i, s) ==
    /\ dpc[i][s] = "take"
    /\ orders[i] # <<>>
    /\ orders' = [orders EXCEPT ![i] = Tail(@)]
    /\ dheld' = [dheld EXCEPT ![i][s] = Head(orders[i])]
    /\ dpc' = [dpc EXCEPT ![i][s] = "send"]
    /\ UNCHANGED notCloneVars
    /\ UNCHANGED <<input, numClones, active, count, rpc, ri, waitGroups, cpc,
                   closed, got, seenClosed, clonePanic>>

\* mutation of Take: the ticket is compared with <= instead of ==
TakeAtMost(i, s) ==
    /\ dpc[i][s] = "take"
    /\ orders[i] # <<>>
    /\ orders' = [orders EXCEPT ![i] = Tail(@)]
    /\ dheld' = [dheld EXCEPT ![i][s] = Head(orders[i])]
    /\ dpc' = [dpc EXCEPT ![i][s] = IF Head(orders[i]) <= s THEN "send" ELSE "putback"]
    /\ UNCHANGED notCloneVars
    /\ UNCHANGED <<input, numClones, active, count, rpc, ri, waitGroups, cpc,
                   closed, got, seenClosed, clonePanic>>

\* o := <-orders[i]; if o == order { break }
Take(i, s) ==
    /\ dpc[i][s] = "take"
    /\ orders[i] # <<>>
    /\ orders' = [orders EXCEPT ![i] = Tail(@)]
    /\ dheld' = [dheld EXCEPT ![i][s] = Head(orders[i])]
    /\ dpc' = [dpc EXCEPT ![i][s] = IF Head(orders[i]) = s THEN "send" ELSE "putback"]
    /\ UNCHANGED notCloneVars
    /\ UNCHANGED <<input, numClones, active, count, rpc, ri, waitGroups, cpc,
                   closed, got, seenClosed, clonePanic>>

\* mutation of PutBack: the ticket put back is one more than the one taken
PutBackIncremented(i, s) ==
    /\ dpc[i][s] = "putback"
    /\ Len(orders[i]) < 1
    /\ orders' = [orders EXCEPT ![i] = Append(@, dheld[i][s] + 1)]
    /\ dpc' = [dpc EXCEPT ![i][s] = "take"]
    /\ UNCHANGED notCloneVars
    /\ UNCHANGED <<input, numClones, active, count, rpc, ri, waitGroups, dheld,
                   cpc, closed, got, seenClosed, clonePanic>>

\* orders[i] <- o
PutBack(i, s) ==
    /\ dpc[i][s] = "putback"
    /\ Len(orders[i]) < 1
    /\ orders' = [orders EXCEPT ![i] = Append(@, dheld[i][s])]
    /\ dpc' = [dpc EXCEPT ![i][s] = "take"]
    /\ UNCHANGED notCloneVars
    /\ UNCHANGED <<input, numClones, active, count, rpc, ri, waitGroups, dheld,
                   cpc, closed, got, seenClosed, clonePanic>>

\* clones[i] <- t, taken by the consumer of clone i (a send on a closed
\* channel panics)
Send(i, s) ==
    /\ dpc[i][s] = "send"
    /\ IF closed[i]
          THEN /\ clonePanic' = TRUE
               /\ got' = got
          ELSE /\ i \in active
               /\ ~seenClosed[i]
               /\ got' = [got EXCEPT ![i] = Append(@, input[s + 1])]
               /\ clonePanic' = clonePanic
    /\ dpc' = [dpc EXCEPT ![i][s] = "advance"]
    /\ UNCHANGED notCloneVars
    /\ UNCHANGED <<input, numClones, active, count, rpc, ri, waitGroups, orders,
                   dheld, cpc, closed, seenClosed>>

\* orders[i] <- order + 1
Advance(i, s) ==
    /\ dpc[i][s] = "advance"
    /\ Len(orders[i]) < 1
    /\ orders' = [orders EXCEPT ![i] = Append(@, s + 1)]
    /\ dpc' = [dpc EXCEPT ![i][s] = "exit"]
    /\ UNCHANGED notCloneVars
    /\ UNCHANGED <<input, numClones, active, count, rpc, ri, waitGroups, dheld,
                   cpc, closed, got, seenClosed, clonePanic>>

\* defer waitGroups[i].Done()
Exit(i, s) ==
    /\ dpc[i][s] = "exit"
    /\ waitGroups' = [waitGroups EXCEPT ![i] = @ - 1]
    /\ dpc' = [dpc EXCEPT ![i][s] = "done"]
    /\ UNCHANGED notCloneVars
    /\ UNCHANGED <<input, numClones, active, count, rpc, ri, orders, dheld, cpc,
                   closed, got, seenClosed, clonePanic>>

\* mutation of CloserWait: one WaitGroup shared by all clones
CloserWaitShared(i) ==
    /\ cpc[i] = "wait"
    /\ \A j \in CloneIds : waitGroups[j] = 0
    /\ cpc' = [cpc EXCEPT ![i] = "close"]
    /\ UNCHANGED notCloneVars
    /\ UNCHANGED <<input, numClones, active, count, rpc, ri, waitGroups, orders,
                   dpc, dheld, closed, got, seenClosed, clonePanic>>

\* mutation of CloserWait: the closing goroutine does not wait
CloserWaitSkipped(i) ==
    /\ cpc[i] = "wait"
    /\ cpc' = [cpc EXCEPT ![i] = "close"]
    /\ UNCHANGED notCloneVars
    /\ UNCHANGED <<input, numClones, active, count, rpc, ri, waitGroups, orders,
                   dpc, dheld, closed, got, seenClosed, clonePanic>>

\* waitGroups[i].Wait() returns once the counter is zero
CloserWait(i) ==
    /\ cpc[i] = "wait"
    /\ waitGroups[i] = 0
    /\ cpc' = [cpc EXCEPT ![i] = "close"]
    /\ UNCHANGED notCloneVars
    /\ UNCHANGED <<input, numClones, active, count, rpc, ri, waitGroups, orders,
                   dpc, dheld, closed, got, seenClosed, clonePanic>>

\* close(clones[i]) (closing a closed channel panics)
CloserClose(i) ==
    /\ cpc[i] = "close"
    /\ closed' = [closed EXCEPT ![i] = TRUE]
    /\ clonePanic' = (clonePanic \/ closed[i])
    /\ cpc' = [cpc EXCEPT ![i] = "done"]
    /\ UNCHANGED notCloneVars
    /\ UNCHANGED <<input, numClones, active, count, rpc, ri, waitGroups, orders,
                   dpc, dheld, got, seenClosed>>

\* the consumer's receive on the closed clone reports closed: its loop ends
ConsumerSeesClosed(i) ==
    /\ i \in active
    /\ closed[i]
    /\ ~seenClosed[i]
    /\ seenClosed' = [seenClosed EXCEPT ![i] = TRUE]
    /\ UNCHANGED notCloneVars
    /\ UNCHANGED <<input, numClones, active, count, rpc, ri, waitGroups, orders,
                   dpc, dheld, cpc, closed, got, clonePanic>>

Reader == ReaderRecv \/ ReaderEnd \/ ReaderSpawn \/ ReaderSpawnCloser

\* the steps of a delivery goroutine other than taking the ticket
AfterTake(i, s) == PutBack(i, s) \/ Send(i, s) \/ Advance(i, s) \/ Exit(i, s)

Closer(i) == CloserWait(i) \/ CloserClose(i)

CloneNext ==
    \/ ReaderRecv
    \/ ReaderEnd
    \/ ReaderSpawn
    \/ ReaderSpawnCloser
    \/ \E i \in CloneIds, s \in Orders : Take(i, s)
    \/ \E i \in CloneIds, s \in Orders : PutBack(i, s)
    \/ \E i \in CloneIds, s \in Orders : Send(i, s)
    \/ \E i \in CloneIds, s \in Orders : Advance(i, s)
    \/ \E i \in CloneIds, s \in Orders : Exit(i, s)
    \/ \E i \in CloneIds : CloserWait(i)
    \/ \E i \in CloneIds : CloserClose(i)
    \/ \E i \in CloneIds : ConsumerSeesClosed(i)

CloneInit == CloneStart /\ GenIdle /\ ParIdle /\ StageIdle /\ FoldIdle /\ ZipIdle /\ FlattenIdle /\ PartIdle /\ UnZipIdle /\ IterIdle

CloneSpec == CloneInit /\ [][CloneNext]_vars

\* The Go scheduler runs every runnable goroutine, and the receivers blocked
\* on orders[i] are served first come first served: the goroutine whose
\* order matches the ticket gets it after finitely many rounds (strong
\* fairness of Take); every other step is weakly fair.
CloneFairness ==
    /\ WF_vars(Reader)
    /\ \A i \in 1 .. MaxClones :
          /\ WF_vars(i \in CloneIds /\ Closer(i))
          /\ WF_vars(i \in CloneIds /\ ConsumerSeesClosed(i))
          /\ \A s \in 0 .. (MaxLen - 1) :
                /\ SF_vars(i \in CloneIds /\ s \in Orders /\ Take(i, s))
                /\ WF_vars(i \in CloneIds /\ s \in Orders /\ AfterTake(i, s))

CloneFairSpec == CloneSpec /\ CloneFairness

\* the delivery goroutine of clone i for sequence number s has sent its element
Delivered(i, s) == dpc[i][s] \in {"advance", "exit", "done"}

\* the delivery goroutine of clone i for sequence number s has returned
Completed(i, s) == dpc[i][s] = "done"

\* the consumer of clone i has received the whole input and seen the close
Drained(i) == i \in CloneIds /\ seenClosed[i] /\ got[i] = input

(***************************************************************************)
(* C1: when every clone is drained, each clone delivers exactly the input  *)
(* sequence (a prefix of it at every moment, all of it once the clone is   *)
(* closed), no send panics, and every consumer eventually sees its clone   *)
(* closed after the whole sequence.                                        *)
(***************************************************************************)
C1_CloneDeliversInput ==
    /\ [](active = CloneIds =>
            /\ ~clonePanic
            /\ \A i \in CloneIds : /\ IsPrefix(got[i], input)
                                    /\ closed[i] => got[i] = input)
    /\ (active = CloneIds) ~> (\A i \in CloneIds : Drained(i))

C1_Witness ==
    /\ numClones = 2
    /\ active = {1, 2}
    /\ input = <<1, 2, 3>>
    /\ Drained(1)
    /\ Drained(2)

(***************************************************************************)
(* C2 as claimed: no clone has delivered position i+1 while another clone  *)
(* has not delivered position i, i.e. no clone is more than one element    *)
(* ahead of another (stated for drained clones).                           *)
(***************************************************************************)
C2_Original_LockStep ==
    active = CloneIds =>
        \A a \in CloneIds, b \in CloneIds : Len(got[a]) <= Len(got[b]) + 1

(***************************************************************************)
(* C2 amended: the order is kept per clone, not across clones.  A clone    *)
(* delivers position s+1 only after that same clone delivered position s,  *)
(* what it has delivered is a prefix of the input, and the delivery        *)
(* goroutines of an element are spawned for all clones before any          *)
(* goroutine of the next element is spawned.                               *)
(***************************************************************************)
C2_PerCloneOrder ==
    \A i \in CloneIds :
        /\ IsPrefix(got[i], input)
        /\ Len(got[i]) = Cardinality({s \in Orders : Delivered(i, s)})
        /\ \A s \in Orders :
              /\ (s > 0 /\ Delivered(i, s)) => Delivered(i, s - 1)
              /\ (s > 0 /\ dpc[i][s] # "none") =>
                     \A j \in CloneIds : dpc[j][s - 1] # "none"

C2_Witness ==
    /\ numClones = 2
    /\ active = {1, 2}
    /\ input = <<1, 2, 3>>
    /\ got[1] = <<1, 2, 3>>
    /\ got[2] = <<>>

(***************************************************************************)
(* C3: a consumer that drains its clone receives the whole input and then  *)
(* sees the clone closed, whatever the consumers of the other clones do    *)
(* (they may never receive).                                               *)
(***************************************************************************)
C3_StalledCloneDoesNotBlock ==
    \A i \in 1 .. MaxClones : (i \in active) ~> Drained(i)

C3_Witness ==
    /\ numClones = 2
    /\ active = {1}
    /\ Len(input) = 3
    /\ Drained(1)
    /\ got[2] = <<>>
    /\ ~closed[2]

(***************************************************************************)
(* C4 as claimed: an output is closed only when every delivery goroutine   *)
(* of every clone has completed.                                           *)
(***************************************************************************)
C4_Original_CloseAfterAllTasks ==
    \A i \in CloneIds :
        closed[i] => \A j \in CloneIds, s \in Orders : Completed(j, s)

(***************************************************************************)
(* C4 amended: clone i is closed only when the input is exhausted and      *)
(* every delivery goroutine of clone i (one per element) has completed;    *)
(* goroutines of other clones may still be pending.                        *)
(***************************************************************************)
C4_CloseAfterOwnTasks ==
    \A i \in CloneIds :
        closed[i] => /\ count = Len(input)
                     /\ rpc \in {"closers", "done"}
                     /\ \A s \in Orders : Completed(i, s)

C4_Witness ==
    /\ numClones = 2
    /\ Len(input) = 3
    /\ closed[1]
    /\ ~closed[2]
    /\ \E s \in Orders : ~Completed(2, s)

(***************************************************************************)
(* Generate: the generator goroutine, the stop function, the consumers.    *)
(***************************************************************************)
StopIds == 1 .. stopCalls
ConsumerIds == 1 .. MaxConsumers

\* c := make(chan T); keepGoing.Store(true); go func(){...}(); return
GenStart ==
    /\ keepGoing = TRUE
    /\ gpc = "load"
    /\ supplied = 0
    /\ gval = 0
    /\ gcloses = 0
    /\ stopCalls \in 1 .. MaxStops
    /\ spc = [k \in 1 .. stopCalls |-> "idle"]
    /\ sres = [k \in 1 .. stopCalls |-> "none"]
    /\ kpc = [j \in ConsumerIds |-> "idle"]
    /\ krecvs = [j \in ConsumerIds |-> 0]
    /\ kafter = [j \in ConsumerIds |-> FALSE]
    /\ kres = [j \in ConsumerIds |-> "none"]
    /\ kvalues = [j \in ConsumerIds |-> 0]

\* c has been closed
GenClosed == gcloses > 0

\* for keepGoing.Load() {
GenLoad ==
    /\ gpc = "load"
    /\ gpc' = IF keepGoing THEN "supply" ELSE "close"
    /\ UNCHANGED notGenVars
    /\ UNCHANGED <<keepGoing, supplied, gval, gcloses, stopCalls, spc, sres,
                   kpc, krecvs, kafter, kres, kvalues>>

\* mutation of GenSupply: the flag is read again after supplier() and a
\* value obtained after stop is dropped
GenSupplyRechecks ==
    /\ gpc = "supply"
    /\ supplied' = supplied + 1
    /\ gval' = supplied + 1
    /\ gpc' = IF keepGoing THEN "send" ELSE "close"
    /\ UNCHANGED notGenVars
    /\ UNCHANGED <<keepGoing, gcloses, stopCalls, spc, sres,
                   kpc, krecvs, kafter, kres, kvalues>>

\* supplier(): the operand of the send is evaluated
GenSupply ==
    /\ gpc = "supply"
    /\ supplied' = supplied + 1
    /\ gval' = supplied + 1
    /\ gpc' = "send"
    /\ UNCHANGED notGenVars
    /\ UNCHANGED <<keepGoing, gcloses, stopCalls, spc, sres,
                   kpc, krecvs, kafter, kres, kvalues>>

\* close(c)
GenClose ==
    /\ gpc = "close"
    /\ gcloses' = gcloses + 1
    /\ gpc' = "done"
    /\ UNCHANGED notGenVars
    /\ UNCHANGED <<keepGoing, supplied, gval, stopCalls, spc, sres,
                   kpc, krecvs, kafter, kres, kvalues>>

\* mutation of StopStore: the flag is not cleared
StopStoreForgets(k) ==
    /\ spc[k] = "idle"
    /\ spc' = [spc EXCEPT ![k] = "recv"]
    /\ UNCHANGED notGenVars
    /\ UNCHANGED <<keepGoing, gpc, supplied, gval, gcloses, stopCalls, sres,
                   kpc, krecvs, kafter, kres, kvalues>>

\* mutation of StopStore: the flag is cleared and stop returns without
\* receiving from c
StopStoreOnly(k) ==
    /\ spc[k] = "idle"
    /\ keepGoing' = FALSE
    /\ spc' = [spc EXCEPT ![k] = "returned"]
    /\ UNCHANGED notGenVars
    /\ UNCHANGED <<gpc, supplied, gval, gcloses, stopCalls, sres,
                   kpc, krecvs, kafter, kres, kvalues>>

\* a call of the stop function: keepGoing.Store(false)
StopStore(k) ==
    /\ spc[k] = "idle"
    /\ keepGoing' = FALSE
    /\ spc' = [spc EXCEPT ![k] = "recv"]
    /\ UNCHANGED notGenVars
    /\ UNCHANGED <<gpc, supplied, gval, gcloses, stopCalls, sres,
                   kpc, krecvs, kafter, kres, kvalues>>

\* mutation of StopRecv: stop closes c itself instead of receiving from it
StopCloses(k) ==
    /\ spc[k] = "recv"
    /\ gcloses' = gcloses + 1
    /\ sres' = [sres EXCEPT ![k] = "closed"]
    /\ spc' = [spc EXCEPT ![k] = "returned"]
    /\ UNCHANGED notGenVars
    /\ UNCHANGED <<keepGoing, gpc, supplied, gval, stopCalls,
                   kpc, krecvs, kafter, kres, kvalues>>

\* _, _ = <-c in the stop function: it takes the value the goroutine is
\* sending, or finds c closed; then stop returns
StopRecv(k) ==
    /\ spc[k] = "recv"
    /\ IF GenClosed
          THEN /\ sres' = [sres EXCEPT ![k] = "closed"]
               /\ UNCHANGED gpc
          ELSE /\ gpc = "send"
               /\ sres' = [sres EXCEPT ![k] = "value"]
               /\ gpc' = "load"
    /\ spc' = [spc EXCEPT ![k] = "returned"]
    /\ UNCHANGED notGenVars
    /\ UNCHANGED <<keepGoing, supplied, gval, gcloses, stopCalls,
                   kpc, krecvs, kafter, kres, kvalues>>

\* a consumer starts a receive on c
ConsumerStart(j) ==
    /\ kpc[j] = "idle"
    /\ krecvs[j] < MaxRecv
    /\ kpc' = [kpc EXCEPT ![j] = "receiving"]
    /\ kafter' = [kafter EXCEPT ![j] = \E k \in StopIds : spc[k] = "returned"]
    /\ kres' = [kres EXCEPT ![j] = "none"]
    /\ UNCHANGED notGenVars
    /\ UNCHANGED <<keepGoing, gpc, supplied, gval, gcloses, stopCalls, spc, sres,
                   krecvs, kvalues>>

\* the consumer's receive completes: with the value the goroutine is
\* sending, or with closed
ConsumerRecv(j) ==
    /\ kpc[j] = "receiving"
    /\ IF GenClosed
          THEN /\ kres' = [kres EXCEPT ![j] = "closed"]
               /\ UNCHANGED <<gpc, kvalues>>
          ELSE /\ gpc = "send"
               /\ kres' = [kres EXCEPT ![j] = "value"]
               /\ kvalues' = [kvalues EXCEPT ![j] = @ + 1]
               /\ gpc' = "load"
    /\ kpc' = [kpc EXCEPT ![j] = "idle"]
    /\ krecvs' = [krecvs EXCEPT ![j] = @ + 1]
    /\ UNCHANGED notGenVars
    /\ UNCHANGED <<keepGoing, supplied, gval, gcloses, stopCalls, spc, sres,
                   kafter>>

Generator == GenLoad \/ GenSupply \/ GenClose

GenNext ==
    \/ GenLoad
    \/ GenSupply
    \/ GenClose
    \/ \E k \in StopIds : StopStore(k)
    \/ \E k \in StopIds : StopRecv(k)
    \/ \E j \in ConsumerIds : ConsumerStart(j)
    \/ \E j \in ConsumerIds : ConsumerRecv(j)

GenInit == GenStart /\ CloneIdle /\ ParIdle /\ StageIdle /\ FoldIdle /\ ZipIdle /\ FlattenIdle /\ PartIdle /\ UnZipIdle /\ IterIdle

GenSpec == GenInit /\ [][GenNext]_vars

\* Every runnable goroutine is scheduled: the generator goroutine runs, and
\* a receive that can complete (a sender is waiting or c is closed) does.
\* Whether and when stop is called, and whether a consumer receives again,
\* is up to the program.
GenFairness ==
    /\ WF_vars(Generator)
    /\ \A k \in 1 .. MaxStops : WF_vars(k \in StopIds /\ StopRecv(k))
    /\ \A j \in ConsumerIds : WF_vars(ConsumerRecv(j))

GenFairSpec == GenSpec /\ GenFairness

\* the goroutine is blocked in a send on c although c is closed: the send
\* panics
GenSendOnClosed == gpc = "send" /\ GenClosed

(***************************************************************************)
(* C5: a receive on the generator's output that starts after a call of     *)
(* stop has returned never gets a value: it reports closed (or is still    *)
(* waiting for the close).                                                 *)
(***************************************************************************)
C5_NoValueAfterStop ==
    \A j \in ConsumerIds : kafter[j] => kres[j] # "value"

C5_Witness ==
    \E j \in ConsumerIds :
        /\ kafter[j]
        /\ kres[j] = "closed"
        /\ \E k \in StopIds : sres[k] = "value"
        /\ \E i \in ConsumerIds : kvalues[i] > 0

(***************************************************************************)
(* C6: with a single call of stop, the call returns and the generator      *)
(* goroutine closes its output and terminates, wherever the goroutine is   *)
(* when stop is called and whatever the consumers do.                      *)
(***************************************************************************)
C6_SingleStopTerminates ==
    (stopCalls = 1 /\ spc[1] # "idle") ~>
        (stopCalls = 1 /\ spc[1] = "returned" /\ gpc = "done" /\ gcloses = 1)

C6_Witness ==
    /\ stopCalls = 1
    /\ spc[1] = "returned"
    /\ sres[1] = "value"
    /\ gpc = "done"
    /\ \E j \in ConsumerIds : kvalues[j] > 0

(***************************************************************************)
(* C7: with two or more calls of stop, one after the other or at the same  *)
(* time, every call returns, the output is closed at most once and no send *)
(* hits the closed output.                                                 *)
(***************************************************************************)
C7_StopIdempotent ==
    /\ [](gcloses <= 1 /\ ~GenSendOnClosed)
    /\ \A k \in 1 .. MaxStops : (k \in StopIds /\ spc[k] # "idle") ~> (k \in StopIds /\ spc[k] = "returned")

C7_Witness ==
    /\ stopCalls = 2
    /\ sres[1] = "value"
    /\ sres[2] = "closed"
    /\ spc[1] = "returned"
    /\ spc[2] = "returned"
    /\ gcloses = 1

(***************************************************************************)
(* The worker pools.  The user functions are fixed: f multiplies by ten    *)
(* and fails on multiples of three, p holds of even numbers and fails on   *)
(* multiples of three; the error of element x is -x.                       *)
(***************************************************************************)
Variants == {"Map", "Filter", "MapWithErr", "FilterWithErr"}
WithErr == {"MapWithErr", "FilterWithErr"}
Workers == 1 .. NumCPU

F(t) == t * 10
P(t) == t % 2 = 0
Fails(t) == t % 3 = 0
Err(t) == 0 - t

\* mutation of MapBody: the element is sent as it is, f is not applied
MapBodyNoCall(t) == << <<"mapped", t>> >>

\* ParallelMap's loop body: mapped <- f(t)
MapBody(t) == << <<"mapped", F(t)>> >>

\* mutation of FilterBody: the test is inverted
FilterBodyInverted(t) == IF P(t) THEN <<>> ELSE << <<"mapped", t>> >>

\* ParallelFilter's loop body: if p(t) { filtered <- t }
FilterBody(t) == IF P(t) THEN << <<"mapped", t>> >> ELSE <<>>

\* mutation of MapWithErrBody: the else is missing, the zero value is sent
\* on mapped after the error
MapWithErrBodyNoElse(t) ==
    IF Fails(t) THEN << <<"errs", Err(t)>>, <<"mapped", 0>> >>
    ELSE << <<"mapped", F(t)>> >>

\* mutation of MapWithErrBody: the error is dropped when nobody receives it
MapWithErrBodyDropsErr(t) ==
    IF Fails(t) THEN <<>> ELSE << <<"mapped", F(t)>> >>

\* ParallelMapWithErr's loop body:
\* u, err := f(t); if err != nil { errs <- err } else { mapped <- u }
MapWithErrBody(t) ==
    IF Fails(t) THEN << <<"errs", Err(t)>> >> ELSE << <<"mapped", F(t)>> >>

\* ParallelFilterWithErr's loop body:
\* ok, err := p(t); if err != nil { errs <- err } else if ok { filtered <- t }
FilterWithErrBody(t) ==
    IF Fails(t) THEN << <<"errs", Err(t)>> >>
    ELSE IF P(t) THEN << <<"mapped", t>> >> ELSE <<>>

\* the sends a worker of the called function makes for element t
Body(t) ==
    CASE variant = "Map" -> MapBody(t)
      [] variant = "Filter" -> FilterBody(t)
      [] variant = "MapWithErr" -> MapWithErrBody(t)
      [] variant = "FilterWithErr" -> FilterWithErrBody(t)

\* mapped := make(chan U); errs := make(chan error); go func(){...}()
ParStart ==
    /\ variant \in Variants
    /\ pin \in {Iota(n) : n \in 0 .. MaxParLen}
    /\ pnext = 1
    /\ drained \in SUBSET {"mapped", "errs"}
    /\ mpc = "spawn"
    /\ mi = 1
    /\ waitGroup = 0
    /\ wpc = [w \in Workers |-> "none"]
    /\ wq = [w \in Workers |-> <<>>]
    /\ fcalls = [x \in 1 .. Len(pin) |-> 0]
    /\ mappedGot = <<>>
    /\ errsGot = <<>>
    /\ mappedCloses = 0
    /\ errsCloses = 0
    /\ sentOnClosed = FALSE

\* for i := 0; i < concurrency; i++ { waitGroup.Add(1); go func(){...}() }
MainSpawn ==
    /\ mpc = "spawn"
    /\ waitGroup' = waitGroup + 1
    /\ wpc' = [wpc EXCEPT ![mi] = "run"]
    /\ IF mi < NumCPU
          THEN /\ mi' = mi + 1
               /\ mpc' = mpc
          ELSE /\ mi' = mi
               /\ mpc' = "wait"
    /\ UNCHANGED notParVars
    /\ UNCHANGED <<variant, pin, pnext, drained, wq, fcalls, mappedGot, errsGot,
                   mappedCloses, errsCloses, sentOnClosed>>

\* mutation of MainWait: the join barrier is missing
MainWaitSkipped ==
    /\ mpc = "wait"
    /\ mpc' = "closeMapped"
    /\ UNCHANGED notParVars
    /\ UNCHANGED <<variant, pin, pnext, drained, mi, waitGroup, wpc, wq, fcalls,
                   mappedGot, errsGot, mappedCloses, errsCloses, sentOnClosed>>

\* waitGroup.Wait()
MainWait ==
    /\ mpc = "wait"
    /\ waitGroup = 0
    /\ mpc' = "closeMapped"
    /\ UNCHANGED notParVars
    /\ UNCHANGED <<variant, pin, pnext, drained, mi, waitGroup, wpc, wq, fcalls,
                   mappedGot, errsGot, mappedCloses, errsCloses, sentOnClosed>>

\* close(mapped) / close(filtered)
MainCloseMapped ==
    /\ mpc = "closeMapped"
    /\ mappedCloses' = mappedCloses + 1
    /\ mpc' = IF variant \in WithErr THEN "closeErrs" ELSE "done"
    /\ UNCHANGED notParVars
    /\ UNCHANGED <<variant, pin, pnext, drained, mi, waitGroup, wpc, wq, fcalls,
                   mappedGot, errsGot, errsCloses, sentOnClosed>>

\* close(errs)
MainCloseErrs ==
    /\ mpc = "closeErrs"
    /\ errsCloses' = errsCloses + 1
    /\ mpc' = "done"
    /\ UNCHANGED notParVars
    /\ UNCHANGED <<variant, pin, pnext, drained, mi, waitGroup, wpc, wq, fcalls,
                   mappedGot, errsGot, mappedCloses, sentOnClosed>>

\* mutation of WorkerRecv: the worker sends the element without applying f
WorkerRecvNoCall(w) ==
    /\ wpc[w] = "run"
    /\ wq[w] = <<>>
    /\ pnext <= Len(pin)
    /\ pnext' = pnext + 1
    /\ wq' = [wq EXCEPT ![w] = << <<"mapped", pin[pnext]>> >>]
    /\ UNCHANGED notParVars
    /\ UNCHANGED <<variant, pin, drained, mpc, mi, waitGroup, wpc, fcalls, mappedGot,
                   errsGot, mappedCloses, errsCloses, sentOnClosed>>

\* for t := range channel: worker w receives the next element and applies
\* the user function to it
WorkerRecv(w) ==
    /\ wpc[w] = "run"
    /\ wq[w] = <<>>
    /\ pnext <= Len(pin)
    /\ pnext' = pnext + 1
    /\ fcalls' = [fcalls EXCEPT ![pin[pnext]] = @ + 1]
    /\ wq' = [wq EXCEPT ![w] = Body(pin[pnext])]
    /\ UNCHANGED notParVars
    /\ UNCHANGED <<variant, pin, drained, mpc, mi, waitGroup, wpc, mappedGot,
                   errsGot, mappedCloses, errsCloses, sentOnClosed>>

\* the input is exhausted and closed: the worker's range loop ends
WorkerEnd(w) ==
    /\ wpc[w] = "run"
    /\ wq[w] = <<>>
    /\ Len(pin) = 3
    /\ pnext > Len(pin)
    /\ wpc' = [wpc EXCEPT ![w] = "exit"]
    /\ UNCHANGED notParVars
    /\ UNCHANGED <<variant, pin, pnext, drained, mpc, mi, waitGroup, wq, fcalls,
                   mappedGot, errsGot, mappedCloses, errsCloses, sentOnClosed>>

\* defer waitGroup.Done()
WorkerExit(w) ==
    /\ wpc[w] = "exit"
    /\ waitGroup' = waitGroup - 1
    /\ wpc' = [wpc EXCEPT ![w] = "done"]
    /\ UNCHANGED notParVars
    /\ UNCHANGED <<variant, pin, pnext, drained, mpc, mi, wq, fcalls,
                   mappedGot, errsGot, mappedCloses, errsCloses, sentOnClosed>>

\* mapped <- u / filtered <- t, taken by the consumer of the success output
\* (a send on a closed channel panics)
WorkerSendMapped(w) ==
    /\ wpc[w] = "run"
    /\ wq[w] # <<>>
    /\ Head(wq[w])[1] = "mapped"
    /\ IF mappedCloses > 0
          THEN /\ sentOnClosed' = TRUE
               /\ UNCHANGED mappedGot
          ELSE /\ "mapped" \in drained
               /\ mappedGot' = Append(mappedGot, Head(wq[w])[2])
               /\ UNCHANGED sentOnClosed
    /\ wq' = [wq EXCEPT ![w] = Tail(@)]
    /\ UNCHANGED notParVars
    /\ UNCHANGED <<variant, pin, pnext, drained, mpc, mi, waitGroup, wpc, fcalls,
                   errsGot, mappedCloses, errsCloses>>

\* errs <- err, taken by the consumer of the error output
WorkerSendErrs(w) ==
    /\ wpc[w] = "run"
    /\ wq[w] # <<>>
    /\ Head(wq[w])[1] = "errs"
    /\ IF errsCloses > 0
          THEN /\ sentOnClosed' = TRUE
               /\ UNCHANGED errsGot
          ELSE /\ "errs" \in drained
               /\ errsGot' = Append(errsGot, Head(wq[w])[2])
               /\ UNCHANGED sentOnClosed
    /\ wq' = [wq EXCEPT ![w] = Tail(@)]
    /\ UNCHANGED notParVars
    /\ UNCHANGED <<variant, pin, pnext, drained, mpc, mi, waitGroup, wpc, fcalls,
                   mappedGot, mappedCloses, errsCloses>>

ParNext ==
    \/ MainSpawn
    \/ MainWait
    \/ MainCloseMapped
    \/ MainCloseErrs
    \/ \E w \in Workers : WorkerRecv(w)
    \/ \E w \in Workers : WorkerEnd(w)
    \/ \E w \in Workers : WorkerExit(w)
    \/ \E w \in Workers : WorkerSendMapped(w)
    \/ \E w \in Workers : WorkerSendErrs(w)

ParInit == ParStart /\ CloneIdle /\ GenIdle /\ StageIdle /\ FoldIdle /\ ZipIdle /\ FlattenIdle /\ PartIdle /\ UnZipIdle /\ IterIdle

ParSpec == ParInit /\ [][ParNext]_vars

\* the bag (multiset) of the elements of sequence q
BagOfSeq(q) ==
    [x \in {q[i] : i \in DOMAIN q} |-> Cardinality({i \in DOMAIN q : q[i] = x})]

\* the sequence of f(x) for the elements x of q
RECURSIVE MapSeq(_)
MapSeq(q) == IF q = <<>> THEN <<>> ELSE <<F(Head(q))>> \o MapSeq(Tail(q))

\* the values of the sends on output ch that the sequence of sends q holds
RECURSIVE ValuesFor(_, _)
ValuesFor(ch, q) ==
    IF q = <<>> THEN <<>>
    ELSE (IF Head(q)[1] = ch THEN <<Head(q)[2]>> ELSE <<>>) \o ValuesFor(ch, Tail(q))

\* the values the workers hold and still send on output ch
RECURSIVE HeldFor(_, _)
HeldFor(ch, w) == IF w = 0 THEN <<>> ELSE HeldFor(ch, w - 1) \o ValuesFor(ch, wq[w])

\* every worker of the pool has returned
PoolExited == \A w \in Workers : wpc[w] = "done"

\* how often value v occurs in sequence q
Occurrences(v, q) == Cardinality({i \in DOMAIN q : q[i] = v})

Stages == {"Map", "Filter", "MapWithErr", "FilterWithErr", "Distinct", "Limit",
           "TakeWhile", "Sorted", "Stream",
           "AllMatch", "AnyMatch"}
\* the functions that reduce the output of Map(channel, p) to one bool
Matches == {"AllMatch", "AnyMatch"}
StagesWithErr == {"MapWithErr", "FilterWithErr"}
\* the values of the elements of the slices
Elems == {1, 2, 3}
\* the slices up to a length
Slices(n) == UNION {[1 .. k -> Elems] : k \in 0 .. n}

\* mutation of DistinctBody: the lookup in the set is missing
DistinctBodyNoLookup(t) == << <<"mapped", t>> >>

\* the body of Distinct's loop: an element not in the set is sent
DistinctBody(t) ==
    IF t \in set THEN <<>> ELSE << <<"mapped", t>> >>

\* the body of Limit's loop: if count < max { c <- t; count++ } else { break }
LimitBody(t) ==
    IF limitCount < limitMax THEN << <<"mapped", t>> >> ELSE <<>>

\* mutation of LimitBreaks: the loop is left one element later
LimitBreaksOneLater == stage = "Limit" /\ limitCount > limitMax

\* Limit leaves its loop at the element it receives when count = max
LimitBreaks == stage = "Limit" /\ limitCount >= limitMax

\* the body of TakeWhile's loop: if p(t) { c <- t } else { break }
TakeWhileBody(t) ==
    IF P(t) THEN << <<"mapped", t>> >> ELSE <<>>

\* TakeWhile leaves its loop at the first element that fails p
TakeWhileBreaks(t) == stage = "TakeWhile" /\ ~P(t)

\* the body of Sorted's first loop sends nothing: buf = append(buf, t)
SortedBody(t) == <<>>

\* mutation of SortSlice: the buffer is left in the order of arrival
SortSliceNoSort(q) == q

\* q in ascending order: sort.Slice(buf, func(i, j) { buf[i] < buf[j] })
RECURSIVE SortSlice(_)
SortSlice(q) ==
    IF q = <<>> THEN <<>>
    ELSE LET least == CHOOSE i \in DOMAIN q : \A j \in DOMAIN q : q[i] <= q[j]
         IN  <<q[least]>> \o
             SortSlice([k \in 1 .. Len(q) - 1 |->
                         IF k < least THEN q[k] ELSE q[k + 1]])

\* the bools true and false
BoolOf(b) == IF b THEN 1 ELSE 0

\* AllMatch, AnyMatch: the body of the loop of Map(channel, p)
MatchBody(t) == << <<"mapped", BoolOf(P(t))>> >>

\* the third argument of Reduce: true for AllMatch, false for AnyMatch
MatchInitial == IF stage = "AllMatch" THEN 1 ELSE 0

\* the second argument of Reduce: t1 && t2 for AllMatch, t1 || t2 for
\* AnyMatch
MatchOp(t1, t2) ==
    IF stage = "AllMatch" THEN BoolOf(t1 = 1 /\ t2 = 1)
    ELSE BoolOf(t1 = 1 \/ t2 = 1)

\* what the stage's loop body sends for the element t
StageBody(t) ==
    CASE stage = "Map" -> MapBody(t)
      [] stage \in Matches -> MatchBody(t)
      [] stage = "Filter" -> FilterBody(t)
      [] stage = "MapWithErr" -> MapWithErrBody(t)
      [] stage = "FilterWithErr" -> FilterWithErrBody(t)
      [] stage = "Distinct" -> DistinctBody(t)
      [] stage = "Limit" -> LimitBody(t)
      [] stage = "TakeWhile" -> TakeWhileBody(t)
      [] stage = "Sorted" -> SortedBody(t)

StageStart ==
    /\ stage \in Stages
    /\ slice \in Slices(MaxSliceLen)
    /\ fromNext = 1
    /\ channelCloses = 0
    /\ inputClosedBy = "none"
    /\ stpc = (IF stage = "Stream" THEN "iterate" ELSE "range")
    /\ pending = <<>>
    /\ calls = <<>>
    /\ set = {}
    /\ consumed \in SUBSET {"mapped", "errs"}
    /\ (stage \notin StagesWithErr => "errs" \notin consumed)
    /\ (stage \in Matches => "mapped" \in consumed)
    /\ outGot = <<>>
    /\ errGot = <<>>
    /\ outCloses = 0
    /\ errCloses = 0
    /\ toSliceDone = FALSE
    /\ stagePanic = FALSE
    /\ limitMax \in (IF stage = "Limit" THEN 0 .. MaxLimit ELSE {0})
    /\ limitCount = 0
    /\ buf = (IF stage \in Matches THEN <<MatchInitial>> ELSE <<>>)

\* mutation of StageRecv: when Limit breaks it closes the input channel
StageRecvClosesInput ==
    /\ stpc = "range"
    /\ pending = <<>>
    /\ channelCloses = 0
    /\ fromNext <= Len(slice)
    /\ fromNext' = fromNext + 1
    /\ calls' = Append(calls, slice[fromNext])
    /\ pending' = StageBody(slice[fromNext])
    /\ set' = IF stage = "Distinct" THEN set \cup {slice[fromNext]} ELSE set
    /\ limitCount' = IF stage = "Limit" /\ ~LimitBreaks
                        THEN limitCount + 1 ELSE limitCount
    /\ stpc' = IF LimitBreaks \/ TakeWhileBreaks(slice[fromNext])
                  THEN "closeOut" ELSE stpc
    /\ buf' = IF stage = "Sorted" THEN Append(buf, slice[fromNext]) ELSE buf
    /\ channelCloses' = IF LimitBreaks THEN channelCloses + 1 ELSE channelCloses
    /\ inputClosedBy' = IF LimitBreaks THEN "stage" ELSE inputClosedBy
    /\ UNCHANGED notStageVars
    /\ UNCHANGED <<stage, slice, consumed, outGot, errGot, outCloses,
                   errCloses, toSliceDone, stagePanic, limitMax>>

\* FromSlice sends the next element and the stage's range loop receives it,
\* applies the function and decides what to send
StageRecv ==
    /\ stpc = "range"
    /\ pending = <<>>
    /\ channelCloses = 0
    /\ fromNext <= Len(slice)
    /\ fromNext' = fromNext + 1
    /\ calls' = Append(calls, slice[fromNext])
    /\ pending' = StageBody(slice[fromNext])
    /\ set' = IF stage = "Distinct" THEN set \cup {slice[fromNext]} ELSE set
    /\ limitCount' = IF stage = "Limit" /\ ~LimitBreaks
                        THEN limitCount + 1 ELSE limitCount
    /\ stpc' = IF LimitBreaks \/ TakeWhileBreaks(slice[fromNext])
                  THEN "closeOut" ELSE stpc
    /\ buf' = IF stage = "Sorted" THEN Append(buf, slice[fromNext]) ELSE buf
    /\ UNCHANGED notStageVars
    /\ UNCHANGED <<stage, slice, channelCloses, inputClosedBy, consumed,
                   outGot, errGot, outCloses, errCloses, toSliceDone,
                   stagePanic, limitMax>>

\* mutation of FromSliceClose: the source also stops and closes the channel
\* when the stage has left its loop
FromSliceCloseCancelled ==
    /\ stpc # "idle"
    /\ stage # "Stream"
    /\ fromNext > Len(slice) \/ stpc \in {"closeOut", "closeErrs", "done"}
    /\ channelCloses = 0
    /\ channelCloses' = channelCloses + 1
    /\ inputClosedBy' = "source"
    /\ UNCHANGED notStageVars
    /\ UNCHANGED buf
    /\ UNCHANGED limitVars
    /\ UNCHANGED <<stage, slice, fromNext, stpc, pending, calls, set, consumed,
                   outGot, errGot, outCloses, errCloses, toSliceDone,
                   stagePanic>>

\* FromSlice closes the channel after its loop over the slice
FromSliceClose ==
    /\ stpc # "idle"
    /\ stage # "Stream"
    /\ fromNext > Len(slice)
    /\ channelCloses = 0
    /\ channelCloses' = channelCloses + 1
    /\ inputClosedBy' = "source"
    /\ UNCHANGED notStageVars
    /\ UNCHANGED buf
    /\ UNCHANGED limitVars
    /\ UNCHANGED <<stage, slice, fromNext, stpc, pending, calls, set, consumed,
                   outGot, errGot, outCloses, errCloses, toSliceDone,
                   stagePanic>>

\* the stage sends on its success output, which a receiver takes; the
\* receiver of AllMatch and AnyMatch is the loop of FoldLeft, whose body is
\* result = f(result, t)
StageSendOut ==
    /\ stpc \in {"range", "emit", "iterate"}
    /\ pending # <<>>
    /\ Head(pending)[1] = "mapped"
    /\ IF outCloses > 0
          THEN /\ stagePanic' = TRUE
               /\ UNCHANGED <<outGot, buf>>
          ELSE /\ "mapped" \in consumed
               /\ outGot' = Append(outGot, Head(pending)[2])
               /\ buf' = IF stage \in Matches
                            THEN <<MatchOp(buf[1], Head(pending)[2])>>
                            ELSE buf
               /\ UNCHANGED stagePanic
    /\ pending' = Tail(pending)
    /\ UNCHANGED notStageVars
    /\ UNCHANGED limitVars
    /\ UNCHANGED <<stage, slice, fromNext, channelCloses, inputClosedBy, stpc,
                   calls, set, consumed, errGot, outCloses, errCloses,
                   toSliceDone>>

\* the stage sends on its error output, which a receiver takes
StageSendErr ==
    /\ stpc = "range"
    /\ pending # <<>>
    /\ Head(pending)[1] = "errs"
    /\ IF errCloses > 0
          THEN /\ stagePanic' = TRUE
               /\ UNCHANGED errGot
          ELSE /\ "errs" \in consumed
               /\ errGot' = Append(errGot, Head(pending)[2])
               /\ UNCHANGED stagePanic
    /\ pending' = Tail(pending)
    /\ UNCHANGED notStageVars
    /\ UNCHANGED buf
    /\ UNCHANGED limitVars
    /\ UNCHANGED <<stage, slice, fromNext, channelCloses, inputClosedBy, stpc,
                   calls, set, consumed, outGot, outCloses, errCloses,
                   toSliceDone>>

\* mutation of StageRangeEnd: the loop ends although the input is open
StageRangeEndEarly ==
    /\ stpc = "range"
    /\ pending = <<>>
    /\ stpc' = IF stage = "Sorted" THEN "sort" ELSE "closeOut"
    /\ UNCHANGED notStageVars
    /\ UNCHANGED buf
    /\ UNCHANGED limitVars
    /\ UNCHANGED <<stage, slice, fromNext, channelCloses, inputClosedBy,
                   pending, calls, set, consumed, outGot, errGot, outCloses,
                   errCloses, toSliceDone, stagePanic>>

\* the range loop sees the input channel closed and empty
StageRangeEnd ==
    /\ stpc = "range"
    /\ pending = <<>>
    /\ channelCloses > 0
    /\ stpc' = IF stage = "Sorted" THEN "sort" ELSE "closeOut"
    /\ UNCHANGED notStageVars
    /\ UNCHANGED buf
    /\ UNCHANGED limitVars
    /\ UNCHANGED <<stage, slice, fromNext, channelCloses, inputClosedBy,
                   pending, calls, set, consumed, outGot, errGot, outCloses,
                   errCloses, toSliceDone, stagePanic>>

\* close(mapped), close(filtered), close(distinct)
StageCloseOut ==
    /\ stpc = "closeOut"
    /\ outCloses' = outCloses + 1
    /\ stpc' = IF stage \in StagesWithErr THEN "closeErrs" ELSE "done"
    /\ UNCHANGED notStageVars
    /\ UNCHANGED buf
    /\ UNCHANGED limitVars
    /\ UNCHANGED <<stage, slice, fromNext, channelCloses, inputClosedBy,
                   pending, calls, set, consumed, outGot, errGot, errCloses,
                   toSliceDone, stagePanic>>

\* close(errs)
StageCloseErrs ==
    /\ stpc = "closeErrs"
    /\ errCloses' = errCloses + 1
    /\ stpc' = "done"
    /\ UNCHANGED notStageVars
    /\ UNCHANGED buf
    /\ UNCHANGED limitVars
    /\ UNCHANGED <<stage, slice, fromNext, channelCloses, inputClosedBy,
                   pending, calls, set, consumed, outGot, errGot, outCloses,
                   toSliceDone, stagePanic>>

\* mutation of ReduceReturn: the loop is left as soon as the result is
\* determined
ReduceReturnShortCircuit ==
    /\ stage \in Matches
    /\ outCloses > 0 \/ buf # <<MatchInitial>>
    /\ ~toSliceDone
    /\ toSliceDone' = TRUE
    /\ UNCHANGED notStageVars
    /\ UNCHANGED buf
    /\ UNCHANGED limitVars
    /\ UNCHANGED <<stage, slice, fromNext, channelCloses, inputClosedBy, stpc,
                   pending, calls, set, consumed, outGot, errGot, outCloses,
                   errCloses, stagePanic>>

\* AllMatch, AnyMatch: the loop of FoldLeft sees Map's output closed, and
\* FoldLeft, Reduce and the function return result
ReduceReturn ==
    /\ stage \in Matches
    /\ outCloses > 0
    /\ ~toSliceDone
    /\ toSliceDone' = TRUE
    /\ UNCHANGED notStageVars
    /\ UNCHANGED buf
    /\ UNCHANGED limitVars
    /\ UNCHANGED <<stage, slice, fromNext, channelCloses, inputClosedBy, stpc,
                   pending, calls, set, consumed, outGot, errGot, outCloses,
                   errCloses, stagePanic>>

\* ToSlice's range loop over the success output sees it closed and returns
ToSliceReturn ==
    /\ stage \notin Matches
    /\ "mapped" \in consumed
    /\ outCloses > 0
    /\ ~toSliceDone
    /\ toSliceDone' = TRUE
    /\ UNCHANGED notStageVars
    /\ UNCHANGED buf
    /\ UNCHANGED limitVars
    /\ UNCHANGED <<stage, slice, fromNext, channelCloses, inputClosedBy, stpc,
                   pending, calls, set, consumed, outGot, errGot, outCloses,
                   errCloses, stagePanic>>

\* Sorted sorts its buffer and starts the loop that sends it
SortedSort ==
    /\ stpc = "sort"
    /\ buf' = SortSlice(buf)
    /\ pending' = [i \in 1 .. Len(buf) |-> <<"mapped", SortSlice(buf)[i]>>]
    /\ stpc' = "emit"
    /\ UNCHANGED notStageVars
    /\ UNCHANGED limitVars
    /\ UNCHANGED <<stage, slice, fromNext, channelCloses, inputClosedBy,
                   calls, set, consumed, outGot, errGot, outCloses,
                   errCloses, toSliceDone, stagePanic>>

\* Sorted's loop over the sorted buffer ends
SortedEmitEnd ==
    /\ stpc = "emit"
    /\ pending = <<>>
    /\ stpc' = "closeOut"
    /\ UNCHANGED notStageVars
    /\ UNCHANGED limitVars
    /\ UNCHANGED <<stage, slice, fromNext, channelCloses, inputClosedBy,
                   pending, calls, set, consumed, outGot, errGot, outCloses,
                   errCloses, toSliceDone, stagePanic, buf>>

\* Stream: for t := range seq yields the next element of the sequence,
\* which the body sends
StreamYield ==
    /\ stpc = "iterate"
    /\ pending = <<>>
    /\ fromNext <= Len(slice)
    /\ pending' = << <<"mapped", slice[fromNext]>> >>
    /\ fromNext' = fromNext + 1
    /\ UNCHANGED notStageVars
    /\ UNCHANGED limitVars
    /\ UNCHANGED <<stage, slice, channelCloses, inputClosedBy, stpc, calls,
                   set, consumed, outGot, errGot, outCloses, errCloses,
                   toSliceDone, stagePanic, buf>>

\* Stream: the sequence is exhausted, the loop ends and the goroutine
\* returns
StreamEnd ==
    /\ stpc = "iterate"
    /\ pending = <<>>
    /\ fromNext > Len(slice)
    /\ stpc' = "done"
    /\ UNCHANGED notStageVars
    /\ UNCHANGED limitVars
    /\ UNCHANGED <<stage, slice, fromNext, channelCloses, inputClosedBy,
                   pending, calls, set, consumed, outGot, errGot, outCloses,
                   errCloses, toSliceDone, stagePanic, buf>>

StageGoroutine ==
    \/ StageRecv
    \/ StreamYield
    \/ StreamEnd
    \/ StageSendOut
    \/ StageSendErr
    \/ StageRangeEnd
    \/ SortedSort
    \/ SortedEmitEnd
    \/ StageCloseOut
    \/ StageCloseErrs

StageNext ==
    \/ StageGoroutine
    \/ FromSliceClose
    \/ ToSliceReturn
    \/ ReduceReturn

StageInit == StageStart /\ CloneIdle /\ GenIdle /\ ParIdle /\ FoldIdle /\ ZipIdle /\ FlattenIdle /\ PartIdle /\ UnZipIdle /\ IterIdle

StageSpec == StageInit /\ [][StageNext]_vars

\* every goroutine that can take a step eventually takes one
StageFairness ==
    /\ WF_vars(StageGoroutine)
    /\ WF_vars(FromSliceClose)
    /\ WF_vars(ToSliceReturn)
    /\ WF_vars(ReduceReturn)

StageFairSpec == StageSpec /\ StageFairness

\* the error-aware functions, sequential or with a worker pool, on any input
ErrInit == ParInit \/ StageInit

ErrNext ==
    \/ variant # "none" /\ ParNext
    \/ stage # "none" /\ StageNext

ErrSpec == ErrInit /\ [][ErrNext]_vars

\* the function failed for an element a worker of the pool received
ParFailed == \E x \in 1 .. Len(pin) : fcalls[x] > 0 /\ Fails(x)

\* the function failed for an element the sequential stage received
StageFailed == \E i \in 1 .. Len(calls) : Fails(calls[i])

(***************************************************************************)
(* C11: MapWithErr, FilterWithErr, ParallelMapWithErr and                  *)
(* ParallelFilterWithErr.  When nobody receives from the error output,     *)
(* then from the moment the function has failed for an element the task    *)
(* that handles the element stays at its send on the error output, the     *)
(* success output is never closed, the error output neither, and a         *)
(* consumer ranging over the success output never returns.                 *)
(***************************************************************************)
C11_UndrainedErrorsBlock ==
    /\ (variant \in WithErr /\ "errs" \notin drained /\ ParFailed) =>
          /\ mappedCloses = 0
          /\ errsCloses = 0
          /\ mpc \in {"spawn", "wait"}
          /\ \E w \in Workers :
                /\ wpc[w] = "run"
                /\ wq[w] # <<>>
                /\ Head(wq[w])[1] = "errs"
    /\ (stage \in StagesWithErr /\ "errs" \notin consumed /\ StageFailed) =>
          /\ outCloses = 0
          /\ errCloses = 0
          /\ ~toSliceDone
          /\ stpc = "range"
          /\ pending = << <<"errs", Err(calls[Len(calls)])>> >>

C11_Witness ==
    /\ variant = "MapWithErr"
    /\ drained = {"mapped"}
    /\ Len(pin) = 3
    /\ pnext > Len(pin)
    /\ fcalls[3] = 1
    /\ Len(mappedGot) = 2
    /\ mpc = "wait"
    /\ \E w \in Workers : wpc[w] = "done"

\* the elements of q that satisfy p, in the order of q
RECURSIVE FilterSeq(_)
FilterSeq(q) ==
    IF q = <<>> THEN <<>>
    ELSE (IF P(Head(q)) THEN <<Head(q)>> ELSE <<>>) \o FilterSeq(Tail(q))

\* the elements FromSlice has handed to the stage so far
Received == SubSeq(slice, 1, fromNext - 1)

(***************************************************************************)
(* C13: ToSlice(Map(FromSlice(S), f)).  f is applied to the elements       *)
(* received, once each and in their order (never for an empty S); what     *)
(* ToSlice has appended is a prefix of f over S; when ToSlice returns it   *)
(* holds f over S in the order of S, and the input and the mapped output   *)
(* have each been closed once; and ToSlice does return.                    *)
(***************************************************************************)
C13_MapResult ==
    /\ [](stage = "Map" =>
            /\ calls = Received
            /\ IsPrefix(outGot, MapSeq(slice))
            /\ toSliceDone =>
                  /\ outGot = MapSeq(slice)
                  /\ calls = slice
                  /\ channelCloses = 1
                  /\ outCloses = 1)
    /\ (stage = "Map" /\ "mapped" \in consumed) ~> toSliceDone

C13_Witness ==
    /\ stage = "Map"
    /\ slice = <<3, 1, 3>>
    /\ toSliceDone
    /\ outGot = <<30, 10, 30>>
    /\ calls = <<3, 1, 3>>

(***************************************************************************)
(* C14: ToSlice(Filter(FromSlice(S), p)).  What ToSlice has appended is a  *)
(* prefix of the subsequence of S of the elements that satisfy p; when     *)
(* ToSlice returns it holds that subsequence, order and multiplicity as in *)
(* S, and the filtered output has been closed once; and ToSlice does       *)
(* return.                                                                 *)
(***************************************************************************)
C14_FilterResult ==
    /\ [](stage = "Filter" =>
            /\ calls = Received
            /\ IsPrefix(outGot, FilterSeq(slice))
            /\ toSliceDone =>
                  /\ outGot = FilterSeq(slice)
                  /\ outCloses = 1)
    /\ (stage = "Filter" /\ "mapped" \in consumed) ~> toSliceDone

C14_Witness ==
    /\ stage = "Filter"
    /\ slice = <<2, 1, 2>>
    /\ toSliceDone
    /\ outGot = <<2, 2>>

\* the first occurrences among the first k elements of q, in the order of q
RECURSIVE FirstOccurrences(_, _)
FirstOccurrences(q, k) ==
    IF k = 0 THEN <<>>
    ELSE FirstOccurrences(q, k - 1)
            \o (IF \E j \in 1 .. k - 1 : q[j] = q[k] THEN <<>> ELSE <<q[k]>>)

(***************************************************************************)
(* C19: Distinct on a finite input.  What the receiver of the output has   *)
(* got is a prefix of the first occurrences of the input's values, in the  *)
(* input's order; when the receiver sees the output closed it has got each *)
(* distinct value once, in the order of first occurrence, and the output   *)
(* has been closed once; and the receiver does see the output closed.      *)
(***************************************************************************)
C19_DistinctResult ==
    /\ [](stage = "Distinct" =>
            /\ IsPrefix(outGot, FirstOccurrences(slice, Len(slice)))
            /\ \A v \in Elems : Occurrences(v, outGot) <= 1
            /\ toSliceDone =>
                  /\ outGot = FirstOccurrences(slice, Len(slice))
                  /\ \A i \in 1 .. Len(slice) : Occurrences(slice[i], outGot) = 1
                  /\ outCloses = 1)
    /\ (stage = "Distinct" /\ "mapped" \in consumed) ~> toSliceDone

C19_Witness ==
    /\ stage = "Distinct"
    /\ slice = <<2, 1, 2>>
    /\ toSliceDone
    /\ outGot = <<2, 1>>

(***************************************************************************)
(* C20 as stated: Distinct sends nothing on its output while its loop over *)
(* the input is running, that is before it has seen the input closed.      *)
(***************************************************************************)
C20_Original_NoSendBeforeExhausted ==
    (stage = "Distinct" /\ stpc = "range") => (pending = <<>> /\ outGot = <<>>)

(***************************************************************************)
(* C20 amended: Distinct is a streaming stage.  Each first occurrence is   *)
(* sent on the output right after it was received, before the next         *)
(* element is received and whether or not the input is exhausted; only     *)
(* the close of the output waits for the input to be closed.               *)
(***************************************************************************)
C20_DistinctStreams ==
    stage = "Distinct" =>
        /\ outGot \o ValuesFor("mapped", pending)
              = FirstOccurrences(Received, Len(Received))
        /\ Len(pending) <= 1
        /\ stpc # "range" => (channelCloses = 1 /\ fromNext > Len(slice))
        /\ outCloses > 0 => stpc = "done"

C20_Witness ==
    /\ stage = "Distinct"
    /\ slice = <<2, 2, 1>>
    /\ stpc = "range"
    /\ channelCloses = 0
    /\ fromNext = 3
    /\ outGot = <<2>>

\* q is in ascending order
IsAscending(q) == \A i \in 1 .. Len(q) - 1 : q[i] <= q[i + 1]

(***************************************************************************)
(* C21: ToSlice(Sorted(FromSlice(S))).  Sorted sends nothing while its     *)
(* loop over the input is running: whenever something was sent or is about *)
(* to be sent, the input has been closed and every element of S was        *)
(* received.  What ToSlice has appended is in ascending order; when        *)
(* ToSlice returns it holds a permutation of S and the output has been     *)
(* closed once, after the last element; and ToSlice does return.           *)
(***************************************************************************)
C21_SortedBuffers ==
    /\ [](stage = "Sorted" =>
            /\ stpc = "range" => (pending = <<>> /\ outGot = <<>>)
            /\ (pending # <<>> \/ outGot # <<>>) =>
                  (channelCloses = 1 /\ fromNext > Len(slice))
            /\ IsAscending(outGot \o ValuesFor("mapped", pending))
            /\ outCloses > 0 => (pending = <<>> /\ Len(outGot) = Len(slice))
            /\ toSliceDone =>
                  /\ IsAscending(outGot)
                  /\ BagOfSeq(outGot) = BagOfSeq(slice)
                  /\ outCloses = 1)
    /\ (stage = "Sorted" /\ "mapped" \in consumed) ~> toSliceDone

C21_Witness ==
    /\ stage = "Sorted"
    /\ slice = <<3, 1, 2>>
    /\ toSliceDone
    /\ outGot = <<1, 2, 3>>

\* the stages that can leave their loop while the input is open
EarlyStops == {"Limit", "TakeWhile"}

\* the stage has left its loop by break while the source still has elements
\* to send
StoppedEarly ==
    /\ stage \in EarlyStops
    /\ stpc \in {"closeOut", "done"}
    /\ fromNext <= Len(slice)

(***************************************************************************)
(* C27: Limit and TakeWhile behind a source that sends on an unbuffered    *)
(* channel.  When the stage has left its loop by break while the source    *)
(* still has elements to send, the input channel is open and stays open:   *)
(* from then on the source sends no further element and never closes its   *)
(* channel, and the stage does not close it either.  The stage's own       *)
(* goroutine goes on to close its output and ends.                         *)
(***************************************************************************)
C27_EarlyStopLeavesProducerBlocked ==
    /\ [](StoppedEarly => (channelCloses = 0 /\ inputClosedBy = "none"))
    /\ [][StoppedEarly => (StoppedEarly' /\ fromNext' = fromNext
                             /\ channelCloses' = 0)]_vars
    /\ StoppedEarly ~> (stpc = "done" /\ outCloses = 1)

C27_Witness ==
    /\ stage = "TakeWhile"
    /\ slice = <<2, 1, 2>>
    /\ stpc = "done"
    /\ outCloses = 1
    /\ outGot = <<2>>
    /\ fromNext = 3
    /\ channelCloses = 0

(***************************************************************************)
(* C28: ToSlice(Stream(seq)) for a finite sequence.  The claim: what was   *)
(* received from the output is a prefix of the sequence, and with a        *)
(* consumer the output is eventually closed after every element was        *)
(* received, and the consumer's loop ends.                                 *)
(***************************************************************************)
C28_StreamClosesOutput ==
    /\ [](stage = "Stream" => IsPrefix(outGot, slice))
    /\ (stage = "Stream" /\ "mapped" \in consumed)
          ~> (outGot = slice /\ outCloses = 1 /\ toSliceDone)

(***************************************************************************)
(* FoldLeft, FoldRight.  The values are terms over an uninterpreted f,     *)
(* written in prefix form as sequences of numbers: 0 opens an application  *)
(* of f, 9 is the initial value u, an element stands for itself.           *)
(***************************************************************************)
Folds == {"FoldLeft", "FoldRight", "JoinErrs"}
\* JoinErrs is Reduce, which is FoldLeft
LeftFolds == {"FoldLeft", "JoinErrs"}
\* the initial value u
Unit == <<9>>
\* the term f(a, b)
Apply(a, b) == <<0>> \o a \o b

\* JoinErrs: an error is written as its message, a sequence of characters
\* in which 0 is the newline; the nil error is the sequence <<-1>>.  The
\* element k of the input is the error fmt.Errorf("k").
NilError == <<-1>>
ErrorOf(t) == <<t>>

\* mutation of ErrorsJoin: the errors joined so far are forgotten
ErrorsJoinKeepsLast(e1, e2) == e2

\* errors.Join(e1, e2): nil when both are nil; otherwise an error whose
\* message is the messages of the non-nil arguments, one per line
ErrorsJoin(e1, e2) ==
    IF e1 = NilError THEN e2
    ELSE IF e2 = NilError THEN e1
    ELSE e1 \o <<0>> \o e2

\* the third argument: u, and for JoinErrs nil
Initial == IF fold = "JoinErrs" THEN NilError ELSE Unit
\* a new call: no element held, result := u
NewFrame == [t |-> 0, result |-> Initial]
\* the number of calls in progress
Depth == Len(frames)

FoldStart ==
    /\ fold \in Folds
    /\ foldSlice \in Slices(MaxFoldLen)
    /\ foldNext = 1
    /\ foldCloses = 0
    /\ frames = <<NewFrame>>
    /\ applied = <<>>
    /\ returned = <<>>
    /\ maxFrames = 1

\* FromSlice closes the channel after its loop over the slice
FoldFromSliceClose ==
    /\ fold \in Folds
    /\ foldNext > Len(foldSlice)
    /\ foldCloses = 0
    /\ foldCloses' = foldCloses + 1
    /\ UNCHANGED notFoldVars
    /\ UNCHANGED <<fold, foldSlice, foldNext, frames, applied, returned,
                   maxFrames>>

\* mutation of FoldLeftStep: the accumulator is not carried along
FoldLeftStepFromUnit(result, t) == Apply(Unit, <<t>>)

\* FoldLeft's loop body: result = f(result, t)
FoldLeftStep(result, t) ==
    IF fold = "JoinErrs" THEN ErrorsJoin(result, ErrorOf(t))
    ELSE Apply(result, <<t>>)

\* FoldLeft's loop receives an element and combines it
FoldLeftRecv ==
    /\ fold \in LeftFolds
    /\ frames # <<>>
    /\ foldNext <= Len(foldSlice)
    /\ foldNext' = foldNext + 1
    /\ applied' = Append(applied, <<frames[1].result, <<foldSlice[foldNext]>>>>)
    /\ frames' = [frames EXCEPT
                    ![1].result = FoldLeftStep(@, foldSlice[foldNext])]
    /\ UNCHANGED notFoldVars
    /\ UNCHANGED <<fold, foldSlice, foldCloses, returned, maxFrames>>

\* FoldLeft's loop sees the channel closed: return result
FoldLeftReturn ==
    /\ fold \in LeftFolds
    /\ frames # <<>>
    /\ foldCloses > 0
    /\ returned' = frames[1].result
    /\ frames' = <<>>
    /\ UNCHANGED notFoldVars
    /\ UNCHANGED <<fold, foldSlice, foldNext, foldCloses, applied, maxFrames>>

\* mutation of FoldRightRecv: no recursive call, result = f(t, result)
FoldRightRecvNoRecursion ==
    /\ fold = "FoldRight"
    /\ frames # <<>>
    /\ foldNext <= Len(foldSlice)
    /\ foldNext' = foldNext + 1
    /\ applied' = Append(applied, <<<<foldSlice[foldNext]>>, frames[1].result>>)
    /\ frames' = [frames EXCEPT
                    ![1].result = Apply(<<foldSlice[foldNext]>>, @)]
    /\ UNCHANGED notFoldVars
    /\ UNCHANGED <<fold, foldSlice, foldCloses, returned, maxFrames>>

\* the loop of the innermost FoldRight call receives an element and, to
\* evaluate f's second argument, calls FoldRight on the same channel
FoldRightRecv ==
    /\ fold = "FoldRight"
    /\ frames # <<>>
    /\ foldNext <= Len(foldSlice)
    /\ foldNext' = foldNext + 1
    /\ frames' = Append([frames EXCEPT ![Depth].t = foldSlice[foldNext]],
                        NewFrame)
    /\ maxFrames' = IF Depth + 1 > maxFrames THEN Depth + 1 ELSE maxFrames
    /\ UNCHANGED notFoldVars
    /\ UNCHANGED <<fold, foldSlice, foldCloses, applied, returned>>

\* the loop of the innermost FoldRight call sees the channel closed and the
\* call returns result; its caller assigns result = f(t, <returned value>)
\* and goes back to its loop
FoldRightReturn ==
    /\ fold = "FoldRight"
    /\ frames # <<>>
    /\ foldCloses > 0
    /\ IF Depth = 1
          THEN /\ returned' = frames[1].result
               /\ frames' = <<>>
               /\ UNCHANGED applied
          ELSE /\ applied' = Append(applied, <<<<frames[Depth - 1].t>>,
                                              frames[Depth].result>>)
               /\ frames' = [SubSeq(frames, 1, Depth - 1) EXCEPT
                               ![Depth - 1] =
                                   [t |-> 0,
                                    result |-> Apply(<<frames[Depth - 1].t>>,
                                                     frames[Depth].result)]]
               /\ UNCHANGED returned
    /\ UNCHANGED notFoldVars
    /\ UNCHANGED <<fold, foldSlice, foldNext, foldCloses, maxFrames>>

\* the goroutine that called the fold
FoldCaller ==
    \/ FoldLeftRecv
    \/ FoldLeftReturn
    \/ FoldRightRecv
    \/ FoldRightReturn

FoldNext ==
    \/ FoldCaller
    \/ FoldFromSliceClose

FoldInit == FoldStart /\ CloneIdle /\ GenIdle /\ ParIdle /\ StageIdle /\ ZipIdle /\ FlattenIdle /\ PartIdle /\ UnZipIdle /\ IterIdle

FoldSpec == FoldInit /\ [][FoldNext]_vars

\* every goroutine that can take a step eventually takes one
FoldFairness ==
    /\ WF_vars(FoldCaller)
    /\ WF_vars(FoldFromSliceClose)

FoldFairSpec == FoldSpec /\ FoldFairness

\* f(...f(f(u, q[1]), q[2])..., q[k])
RECURSIVE LeftFold(_, _)
LeftFold(q, k) ==
    IF k = 0 THEN Unit ELSE Apply(LeftFold(q, k - 1), <<q[k]>>)

\* f(q[k], f(q[k+1], ... f(q[n], u)))
RECURSIVE RightFold(_, _)
RightFold(q, k) ==
    IF k > Len(q) THEN Unit ELSE Apply(<<q[k]>>, RightFold(q, k + 1))

(***************************************************************************)
(* C15: FoldLeft over [x1..xn].  After k elements were received f has      *)
(* been called k times, the j-th call with the accumulated value of the    *)
(* first j-1 elements and the element xj, and result is the left fold of   *)
(* those k elements; the call returns f(...f(f(u, x1), x2)..., xn), after  *)
(* n calls of f; on an empty input it returns u and f was never called;    *)
(* and the call does return.                                               *)
(***************************************************************************)
C15_FoldLeftResult ==
    /\ [](fold = "FoldLeft" =>
            /\ Len(applied) = foldNext - 1
            /\ \A j \in 1 .. Len(applied) :
                  applied[j] = <<LeftFold(foldSlice, j - 1), <<foldSlice[j]>>>>
            /\ frames # <<>> => frames[1].result = LeftFold(foldSlice, foldNext - 1)
            /\ returned # <<>> =>
                  /\ returned = LeftFold(foldSlice, Len(foldSlice))
                  /\ Len(applied) = Len(foldSlice)
                  /\ foldSlice = <<>> => (returned = Unit /\ applied = <<>>))
    /\ (fold = "FoldLeft") ~> (returned # <<>>)

C15_Witness ==
    /\ fold = "FoldLeft"
    /\ foldSlice = <<2, 1, 2>>
    /\ returned = <<0, 0, 0, 9, 2, 1, 2>>
    /\ Len(applied) = 3

(***************************************************************************)
(* C16: FoldRight over [x1..xn].  The i-th call in progress holds the one  *)
(* element xi it received and waits for the call it made; the innermost    *)
(* call holds none; a call that has combined receives no second element,   *)
(* because the channel is closed by then; at most n+1 calls are in         *)
(* progress, and n+1 are reached; f is called n times, for xn first, each  *)
(* time with the fold of the elements to the right; the outermost call     *)
(* returns f(x1, f(x2, ... f(xn, u))), u on an empty input without a call  *)
(* of f; and it does return.                                               *)
(***************************************************************************)
C16_FoldRightResult ==
    /\ [](fold = "FoldRight" =>
            /\ Depth <= Len(foldSlice) + 1
            /\ maxFrames <= Len(foldSlice) + 1
            /\ \A i \in 1 .. Depth :
                  /\ i < Depth => frames[i].t = foldSlice[i]
                  /\ i = Depth => frames[i].t = 0
                  /\ frames[i].result # Unit =>
                        /\ foldCloses = 1
                        /\ frames[i].result = RightFold(foldSlice, i)
            /\ \A j \in 1 .. Len(applied) :
                  applied[j] = <<<<foldSlice[Len(foldSlice) + 1 - j]>>,
                                 RightFold(foldSlice, Len(foldSlice) + 2 - j)>>
            /\ returned # <<>> =>
                  /\ returned = RightFold(foldSlice, 1)
                  /\ Len(applied) = Len(foldSlice)
                  /\ maxFrames = Len(foldSlice) + 1
                  /\ foldSlice = <<>> => (returned = Unit /\ applied = <<>>))
    /\ (fold = "FoldRight") ~> (returned # <<>>)

C16_Witness ==
    /\ fold = "FoldRight"
    /\ foldSlice = <<2, 1, 2>>
    /\ returned = <<0, 2, 0, 1, 0, 2, 9>>
    /\ Len(applied) = 3
    /\ maxFrames = 4

\* the messages of the errors k of q, in the order of q, with a newline
\* between two consecutive messages and no other newline
RECURSIVE MessageLines(_)
MessageLines(q) ==
    IF Len(q) = 0 THEN <<>>
    ELSE IF Len(q) = 1 THEN ErrorOf(q[1])
    ELSE ErrorOf(q[1]) \o <<0>> \o MessageLines(Tail(q))

(***************************************************************************)
(* C25: JoinErrs over a channel that carries the errors e1..en and is then *)
(* closed.  It returns nil when n = 0; otherwise it returns an error whose *)
(* message is the messages of e1..en in the order received, separated by   *)
(* a newline; it returns only after the channel was closed, having joined  *)
(* every error once; and it does return.                                   *)
(***************************************************************************)
C25_JoinErrsResult ==
    /\ [](fold = "JoinErrs" =>
            /\ Len(applied) = foldNext - 1
            /\ returned # <<>> =>
                  /\ foldCloses = 1
                  /\ Len(applied) = Len(foldSlice)
                  /\ foldSlice = <<>> => returned = NilError
                  /\ foldSlice # <<>> => returned = MessageLines(foldSlice))
    /\ (fold = "JoinErrs") ~> (returned # <<>>)

C25_Witness ==
    /\ fold = "JoinErrs"
    /\ foldSlice = <<1, 2, 3>>
    /\ returned = <<1, 0, 2, 0, 3>>

(***************************************************************************)
(* Zip.                                                                    *)
(***************************************************************************)
\* the slice behind chan2: n pairwise different elements, none of chan1's
RightSlice(n) == [k \in 1 .. n |-> k + 10]
\* Pair{Fst: t, Snd: u}
Pair(t, u) == <<t, u>>

ZipStart ==
    /\ zip = "Zip"
    /\ left \in {Iota(n) : n \in 0 .. MaxZipLen}
    /\ right \in {RightSlice(n) : n \in 0 .. MaxZipLen}
    /\ leftNext = 1
    /\ rightNext = 1
    /\ leftCloses = 0
    /\ rightCloses = 0
    /\ silent \in SUBSET {1, 2}
    /\ zpc = "recv1"
    /\ zt = 0
    /\ ok1 = FALSE
    /\ zu = 0
    /\ ok2 = FALSE
    /\ zipConsumed \in BOOLEAN
    /\ zippedGot = <<>>
    /\ zippedCloses = 0
    /\ zipDone = FALSE

\* FromSlice closes chan1 after its loop over the slice
LeftClose ==
    /\ zip = "Zip"
    /\ 1 \notin silent
    /\ leftNext > Len(left)
    /\ leftCloses = 0
    /\ leftCloses' = leftCloses + 1
    /\ UNCHANGED notZipVars
    /\ UNCHANGED <<zip, left, right, leftNext, rightNext, rightCloses, silent,
                   zpc, zt, ok1, zu, ok2, zipConsumed, zippedGot,
                   zippedCloses, zipDone>>

\* FromSlice closes chan2 after its loop over the slice
RightClose ==
    /\ zip = "Zip"
    /\ 2 \notin silent
    /\ rightNext > Len(right)
    /\ rightCloses = 0
    /\ rightCloses' = rightCloses + 1
    /\ UNCHANGED notZipVars
    /\ UNCHANGED <<zip, left, right, leftNext, rightNext, leftCloses, silent,
                   zpc, zt, ok1, zu, ok2, zipConsumed, zippedGot,
                   zippedCloses, zipDone>>

\* t, ok1 = <-chan1: an element that FromSlice sends, or the zero value and
\* false from the closed channel
ZipRecv1 ==
    /\ zpc = "recv1"
    /\ \/ /\ 1 \notin silent
          /\ leftNext <= Len(left)
          /\ zt' = left[leftNext]
          /\ ok1' = TRUE
          /\ leftNext' = leftNext + 1
       \/ /\ leftCloses > 0
          /\ zt' = 0
          /\ ok1' = FALSE
          /\ UNCHANGED leftNext
    /\ zpc' = "recv2"
    /\ UNCHANGED notZipVars
    /\ UNCHANGED <<zip, left, right, rightNext, leftCloses, rightCloses,
                   silent, zu, ok2, zipConsumed, zippedGot, zippedCloses,
                   zipDone>>

\* mutation of ZipRecv2: the loop goes on while either input has elements
ZipRecv2Either ==
    /\ zpc = "recv2"
    /\ \/ /\ 2 \notin silent
          /\ rightNext <= Len(right)
          /\ zu' = right[rightNext]
          /\ ok2' = TRUE
          /\ rightNext' = rightNext + 1
       \/ /\ rightCloses > 0
          /\ zu' = 0
          /\ ok2' = FALSE
          /\ UNCHANGED rightNext
    /\ zpc' = IF ok1 \/ ok2' THEN "send" ELSE "close"
    /\ UNCHANGED notZipVars
    /\ UNCHANGED <<zip, left, right, leftNext, leftCloses, rightCloses,
                   silent, zt, ok1, zipConsumed, zippedGot, zippedCloses,
                   zipDone>>

\* mutation of ZipRecv2: no receive from chan2 when chan1 was exhausted
ZipRecv2ShortCircuit ==
    /\ zpc = "recv2"
    /\ \/ /\ ok1
          /\ 2 \notin silent
          /\ rightNext <= Len(right)
          /\ zu' = right[rightNext]
          /\ ok2' = TRUE
          /\ rightNext' = rightNext + 1
       \/ /\ ok1
          /\ rightCloses > 0
          /\ zu' = 0
          /\ ok2' = FALSE
          /\ UNCHANGED rightNext
       \/ /\ ~ok1
          /\ UNCHANGED <<zu, ok2, rightNext>>
    /\ zpc' = IF ok1 /\ ok2' THEN "send" ELSE "close"
    /\ UNCHANGED notZipVars
    /\ UNCHANGED <<zip, left, right, leftNext, leftCloses, rightCloses,
                   silent, zt, ok1, zipConsumed, zippedGot, zippedCloses,
                   zipDone>>

\* u, ok2 = <-chan2, whatever ok1 is, and then the loop's test ok1 && ok2
ZipRecv2 ==
    /\ zpc = "recv2"
    /\ \/ /\ 2 \notin silent
          /\ rightNext <= Len(right)
          /\ zu' = right[rightNext]
          /\ ok2' = TRUE
          /\ rightNext' = rightNext + 1
       \/ /\ rightCloses > 0
          /\ zu' = 0
          /\ ok2' = FALSE
          /\ UNCHANGED rightNext
    /\ zpc' = IF ok1 /\ ok2' THEN "send" ELSE "close"
    /\ UNCHANGED notZipVars
    /\ UNCHANGED <<zip, left, right, leftNext, leftCloses, rightCloses,
                   silent, zt, ok1, zipConsumed, zippedGot, zippedCloses,
                   zipDone>>

\* zipped <- Pair{Fst: t, Snd: u}, which a receiver takes
ZipSend ==
    /\ zpc = "send"
    /\ zipConsumed
    /\ zippedGot' = Append(zippedGot, Pair(zt, zu))
    /\ zpc' = "recv1"
    /\ UNCHANGED notZipVars
    /\ UNCHANGED <<zip, left, right, leftNext, rightNext, leftCloses,
                   rightCloses, silent, zt, ok1, zu, ok2, zipConsumed,
                   zippedCloses, zipDone>>

\* close(zipped)
ZipClose ==
    /\ zpc = "close"
    /\ zippedCloses' = zippedCloses + 1
    /\ zpc' = "done"
    /\ UNCHANGED notZipVars
    /\ UNCHANGED <<zip, left, right, leftNext, rightNext, leftCloses,
                   rightCloses, silent, zt, ok1, zu, ok2, zipConsumed,
                   zippedGot, zipDone>>

\* ToSlice's range loop over zipped sees it closed and returns
ZipToSliceReturn ==
    /\ zipConsumed
    /\ zippedCloses > 0
    /\ ~zipDone
    /\ zipDone' = TRUE
    /\ UNCHANGED notZipVars
    /\ UNCHANGED <<zip, left, right, leftNext, rightNext, leftCloses,
                   rightCloses, silent, zpc, zt, ok1, zu, ok2, zipConsumed,
                   zippedGot, zippedCloses>>

ZipGoroutine ==
    \/ ZipRecv1
    \/ ZipRecv2
    \/ ZipSend
    \/ ZipClose

ZipNext ==
    \/ ZipGoroutine
    \/ LeftClose
    \/ RightClose
    \/ ZipToSliceReturn

ZipInit == ZipStart /\ CloneIdle /\ GenIdle /\ ParIdle /\ StageIdle /\ FoldIdle /\ FlattenIdle /\ PartIdle /\ UnZipIdle /\ IterIdle

ZipSpec == ZipInit /\ [][ZipNext]_vars

\* every goroutine that can take a step eventually takes one
ZipFairness ==
    /\ WF_vars(ZipGoroutine)
    /\ WF_vars(LeftClose)
    /\ WF_vars(RightClose)
    /\ WF_vars(ZipToSliceReturn)

ZipFairSpec == ZipSpec /\ ZipFairness

\* the shorter of two lengths
Min(a, b) == IF a < b THEN a ELSE b

\* the pairs (a[i], b[i]) for i up to the length of the shorter sequence
PairsOf(a, b) == [i \in 1 .. Min(Len(a), Len(b)) |-> Pair(a[i], b[i])]

(***************************************************************************)
(* C17: ToSlice(Zip(a, b)) for finite a and b.  What ToSlice has appended  *)
(* is a prefix of the pairs (a[i], b[i]), i up to the shorter length;      *)
(* when ToSlice returns it holds exactly those pairs and zipped has been   *)
(* closed once, so nothing beyond the shorter length was emitted; and      *)
(* ToSlice does return.                                                    *)
(***************************************************************************)
C17_ZipPairs ==
    /\ [](zip = "Zip" =>
            /\ IsPrefix(zippedGot, PairsOf(left, right))
            /\ zippedCloses <= 1
            /\ zipDone =>
                  /\ zippedGot = PairsOf(left, right)
                  /\ zippedCloses = 1)
    /\ (zip = "Zip" /\ silent = {} /\ zipConsumed) ~> zipDone

C17_Witness ==
    /\ zip = "Zip"
    /\ left = <<1, 2, 3>>
    /\ right = <<11>>
    /\ silent = {}
    /\ zipDone
    /\ zippedGot = <<<<1, 11>>>>

(***************************************************************************)
(* C18 as stated: once a receive on one input has reported exhaustion,     *)
(* Zip makes no receive on the other input: its goroutine is never at the  *)
(* receive from chan2 with ok1 false.                                      *)
(***************************************************************************)
C18_NoReceiveAfterExhaustion ==
    (zip = "Zip" /\ zpc = "recv2") => ok1

(***************************************************************************)
(* Flatten.                                                                *)
(***************************************************************************)
\* the slice behind the i-th inner channel, n elements: all elements of all
\* inner channels are pairwise different
InnerSlice(i, n) == [j \in 1 .. n |-> 10 * i + j]
\* the inner channels that are sent on the outer channel
InnerIds == 1 .. Len(inners)

FlattenStart ==
    /\ flatten \in {"Flatten", "FlatMap"}
    /\ fcalled = 0
    /\ \E k \in 0 .. MaxInners :
          \E lens \in [1 .. k -> 0 .. MaxInnerLen] :
             inners = [i \in 1 .. k |-> InnerSlice(i, lens[i])]
    /\ outerNext = 1
    /\ outerCloses = 0
    /\ innerNext = [i \in InnerIds |-> 1]
    /\ innerCloses = [i \in InnerIds |-> 0]
    /\ flpc = "outer"
    /\ cur = 0
    /\ flheld = 0
    /\ flatConsumed \in BOOLEAN
    /\ flatGot = <<>>
    /\ flatCloses = 0
    /\ flatDone = FALSE
    /\ flatPanic = FALSE

\* FlatMap: Map's loop receives the next element of the input and calls f,
\* which makes the inner channel and starts its producer; Map then sends
\* the channel on the outer channel
MapCallsF ==
    /\ flatten = "FlatMap"
    /\ fcalled = outerNext - 1
    /\ fcalled < Len(inners)
    /\ fcalled' = fcalled + 1
    /\ UNCHANGED notFlattenVars
    /\ UNCHANGED <<flatten, inners, outerNext, outerCloses, innerNext,
                   innerCloses, flpc, cur, flheld, flatConsumed, flatGot,
                   flatCloses, flatDone, flatPanic>>

\* inner channel i has been made
InnerExists(i) == flatten = "Flatten" \/ i <= fcalled

\* the producer of the outer channel closes it after its last send
OuterClose ==
    /\ flatten # "none"
    /\ outerNext > Len(inners)
    /\ outerCloses = 0
    /\ outerCloses' = outerCloses + 1
    /\ UNCHANGED notFlattenVars
    /\ UNCHANGED fcalled
    /\ UNCHANGED <<flatten, inners, outerNext, innerNext, innerCloses, flpc,
                   cur, flheld, flatConsumed, flatGot, flatCloses, flatDone,
                   flatPanic>>

\* the producer of inner channel i closes it after its last send
InnerClose(i) ==
    /\ InnerExists(i)
    /\ innerNext[i] > Len(inners[i])
    /\ innerCloses[i] = 0
    /\ innerCloses' = [innerCloses EXCEPT ![i] = @ + 1]
    /\ UNCHANGED notFlattenVars
    /\ UNCHANGED fcalled
    /\ UNCHANGED <<flatten, inners, outerNext, outerCloses, innerNext, flpc,
                   cur, flheld, flatConsumed, flatGot, flatCloses, flatDone,
                   flatPanic>>

\* for channel := range channels: the next inner channel is received
FlattenRecvOuter ==
    /\ flpc = "outer"
    /\ outerNext <= Len(inners)
    /\ InnerExists(outerNext)
    /\ cur' = outerNext
    /\ outerNext' = outerNext + 1
    /\ flpc' = "inner"
    /\ UNCHANGED notFlattenVars
    /\ UNCHANGED fcalled
    /\ UNCHANGED <<flatten, inners, outerCloses, innerNext, innerCloses,
                   flheld, flatConsumed, flatGot, flatCloses, flatDone,
                   flatPanic>>

\* the outer loop sees the outer channel closed
FlattenOuterEnd ==
    /\ flpc = "outer"
    /\ outerCloses > 0
    /\ flpc' = "close"
    /\ UNCHANGED notFlattenVars
    /\ UNCHANGED fcalled
    /\ UNCHANGED <<flatten, inners, outerNext, outerCloses, innerNext,
                   innerCloses, cur, flheld, flatConsumed, flatGot,
                   flatCloses, flatDone, flatPanic>>

\* for t := range channel: the next element of the current inner channel
FlattenRecvInner ==
    /\ flpc = "inner"
    /\ innerNext[cur] <= Len(inners[cur])
    /\ flheld' = inners[cur][innerNext[cur]]
    /\ innerNext' = [innerNext EXCEPT ![cur] = @ + 1]
    /\ flpc' = "send"
    /\ UNCHANGED notFlattenVars
    /\ UNCHANGED fcalled
    /\ UNCHANGED <<flatten, inners, outerNext, outerCloses, innerCloses, cur,
                   flatConsumed, flatGot, flatCloses, flatDone, flatPanic>>

\* mutation of FlattenInnerEnd: the inner loop ends although the current
\* inner channel is open
FlattenInnerEndEarly ==
    /\ flpc = "inner"
    /\ flpc' = "outer"
    /\ UNCHANGED notFlattenVars
    /\ UNCHANGED fcalled
    /\ UNCHANGED <<flatten, inners, outerNext, outerCloses, innerNext,
                   innerCloses, cur, flheld, flatConsumed, flatGot,
                   flatCloses, flatDone, flatPanic>>

\* the inner loop sees the current inner channel closed
FlattenInnerEnd ==
    /\ flpc = "inner"
    /\ innerCloses[cur] > 0
    /\ flpc' = "outer"
    /\ UNCHANGED notFlattenVars
    /\ UNCHANGED fcalled
    /\ UNCHANGED <<flatten, inners, outerNext, outerCloses, innerNext,
                   innerCloses, cur, flheld, flatConsumed, flatGot,
                   flatCloses, flatDone, flatPanic>>

\* flat <- t, which a receiver takes
FlattenSend ==
    /\ flpc = "send"
    /\ IF flatCloses > 0
          THEN /\ flatPanic' = TRUE
               /\ UNCHANGED flatGot
          ELSE /\ flatConsumed
               /\ ~flatDone
               /\ flatGot' = Append(flatGot, flheld)
               /\ UNCHANGED flatPanic
    /\ flpc' = "inner"
    /\ UNCHANGED notFlattenVars
    /\ UNCHANGED fcalled
    /\ UNCHANGED <<flatten, inners, outerNext, outerCloses, innerNext,
                   innerCloses, cur, flheld, flatConsumed, flatCloses,
                   flatDone>>

\* close(flat)
FlattenClose ==
    /\ flpc = "close"
    /\ flatCloses' = flatCloses + 1
    /\ flpc' = "done"
    /\ UNCHANGED notFlattenVars
    /\ UNCHANGED fcalled
    /\ UNCHANGED <<flatten, inners, outerNext, outerCloses, innerNext,
                   innerCloses, cur, flheld, flatConsumed, flatGot, flatDone,
                   flatPanic>>

\* ToSlice's range loop over flat sees it closed and returns
FlatToSliceReturn ==
    /\ flatConsumed
    /\ flatCloses > 0
    /\ ~flatDone
    /\ flatDone' = TRUE
    /\ UNCHANGED notFlattenVars
    /\ UNCHANGED fcalled
    /\ UNCHANGED <<flatten, inners, outerNext, outerCloses, innerNext,
                   innerCloses, flpc, cur, flheld, flatConsumed, flatGot,
                   flatCloses, flatPanic>>

FlattenGoroutine ==
    \/ FlattenRecvOuter
    \/ FlattenOuterEnd
    \/ FlattenRecvInner
    \/ FlattenInnerEnd
    \/ FlattenSend
    \/ FlattenClose

FlattenNext ==
    \/ FlattenGoroutine
    \/ MapCallsF
    \/ OuterClose
    \/ \E i \in InnerIds : InnerClose(i)
    \/ FlatToSliceReturn

FlattenInit ==
    FlattenStart /\ CloneIdle /\ GenIdle /\ ParIdle /\ StageIdle /\ FoldIdle
                 /\ ZipIdle /\ PartIdle /\ UnZipIdle /\ IterIdle

FlattenSpec == FlattenInit /\ [][FlattenNext]_vars

\* every goroutine that can take a step eventually takes one
FlattenFairness ==
    /\ WF_vars(FlattenGoroutine)
    /\ WF_vars(MapCallsF \/ OuterClose)
    /\ \A i \in 1 .. MaxInners : WF_vars(i \in InnerIds /\ InnerClose(i))
    /\ WF_vars(FlatToSliceReturn)

FlattenFairSpec == FlattenSpec /\ FlattenFairness

\* the elements of the slices of q, one slice after the other
RECURSIVE Concatenation(_)
Concatenation(q) ==
    IF q = <<>> THEN <<>> ELSE Head(q) \o Concatenation(Tail(q))

(***************************************************************************)
(* C26: ToSlice(FlatMap(FromSlice([x1..xn]), f)), where f(xi) is a channel *)
(* that carries a finite sequence and is then closed.  f is called at most *)
(* once per element of the input and never for an empty input; while       *)
(* Flatten holds inner channel k, every earlier inner channel has been     *)
(* received to its end and seen closed, and nothing was received from a    *)
(* later one; what was received from the flat output is a prefix of the    *)
(* concatenation of the inner sequences in the order of the input; the     *)
(* flat output is closed once, after Map's output was closed and the last  *)
(* inner channel was seen closed, and then all of the concatenation was    *)
(* received; and ToSlice does return.                                      *)
(***************************************************************************)
C26_FlatMapConcatenates ==
    /\ [](flatten = "FlatMap" =>
            /\ fcalled <= Len(inners)
            /\ fcalled \in {outerNext - 1, outerNext}
            /\ \A i \in InnerIds :
                  /\ (i < cur \/ (i = cur /\ flpc \notin {"inner", "send"})) =>
                        (innerNext[i] > Len(inners[i]) /\ innerCloses[i] = 1)
                  /\ i > cur => innerNext[i] = 1
            /\ IsPrefix(flatGot, Concatenation(inners))
            /\ flatCloses > 0 =>
                  /\ flatCloses = 1
                  /\ outerCloses = 1
                  /\ fcalled = Len(inners)
                  /\ cur = Len(inners)
                  /\ flatGot = Concatenation(inners)
            /\ ~flatPanic)
    /\ (flatten = "FlatMap" /\ flatConsumed) ~> flatDone

C26_Witness ==
    /\ flatten = "FlatMap"
    /\ inners = << <<11, 12>>, <<21>> >>
    /\ fcalled = 2
    /\ flatDone
    /\ flatGot = <<11, 12, 21>>

(***************************************************************************)
(* Partition.                                                              *)
(***************************************************************************)
\* partition := make(chan T): a window channel nobody else knows yet
NewWindow == [delivered |-> FALSE, closes |-> 0, got |-> <<>>]
\* the window channel the variable partition holds
Current == Len(windows)

PartStart ==
    /\ part \in {"Partition", "PartitionSlice"}
    /\ partSlice \in {Iota(n) : n \in 0 .. MaxPartLen}
    /\ partNext = 1
    /\ partInCloses = 0
    /\ size \in 0 .. MaxSize
    /\ pcount = 0
    /\ ppc = "range"
    /\ pheld = 0
    /\ windows = <<NewWindow>>
    /\ partitionedCloses = 0
    /\ partConsumed \in BOOLEAN
    /\ conspc = "outer"
    /\ cwin = 0
    /\ partPanic = FALSE

\* FromSlice closes the input channel after its loop over the slice
PartInputClose ==
    /\ part # "none"
    /\ partNext > Len(partSlice)
    /\ partInCloses = 0
    /\ partInCloses' = partInCloses + 1
    /\ UNCHANGED notPartVars
    /\ UNCHANGED <<part, partSlice, partNext, size, pcount, ppc, pheld,
                   windows, partitionedCloses, partConsumed, conspc, cwin,
                   partPanic>>

\* for t := range channel, and the tests count == size and count < size
\* that select the send the iteration makes first
PartRecv ==
    /\ part = "Partition"
    /\ ppc = "range"
    /\ partNext <= Len(partSlice)
    /\ pheld' = partSlice[partNext]
    /\ partNext' = partNext + 1
    /\ ppc' = IF pcount = size THEN "sendWindow"
              ELSE IF pcount < size THEN "sendElem" ELSE "range"
    /\ UNCHANGED notPartVars
    /\ UNCHANGED <<part, partSlice, partInCloses, size, pcount, windows,
                   partitionedCloses, partConsumed, conspc, cwin, partPanic>>

\* a send of the goroutine is taken by the consumer: partitioned <- partition
\* by the consumer's loop over the outer channel; partition <- t by the
\* consumer's loop over that window, which needs the window to have been
\* handed over
PartSend ==
    /\ part = "Partition"
    /\ partConsumed
    /\ \/ /\ ppc \in {"sendWindow", "lastWindow"}
          /\ conspc = "outer"
          /\ windows' = [windows EXCEPT ![Current].delivered = TRUE]
          /\ conspc' = "window"
          /\ cwin' = Current
          /\ ppc' = IF ppc = "sendWindow" THEN "closeWindow" ELSE "closeLast"
          /\ partPanic' = (partPanic \/ partitionedCloses > 0)
          /\ UNCHANGED pcount
       \/ /\ ppc = "sendElem"
          /\ conspc = "window"
          /\ cwin = Current
          /\ windows[Current].delivered
          /\ windows' = [windows EXCEPT ![Current].got = Append(@, pheld)]
          /\ pcount' = pcount + 1
          /\ ppc' = "range"
          /\ partPanic' = (partPanic \/ windows[Current].closes > 0)
          /\ UNCHANGED <<conspc, cwin>>
    /\ UNCHANGED notPartVars
    /\ UNCHANGED <<part, partSlice, partNext, partInCloses, size, pheld,
                   partitionedCloses, partConsumed>>

\* close(partition); inside the loop also partition = make(chan T),
\* count = 0 and the test count < size
PartCloseWindow ==
    /\ ppc \in {"closeWindow", "closeLast"}
    /\ partPanic' = (partPanic \/ windows[Current].closes > 0)
    /\ IF ppc = "closeWindow"
          THEN /\ windows' = Append([windows EXCEPT ![Current].closes = @ + 1],
                                    NewWindow)
               /\ pcount' = 0
               /\ ppc' = IF 0 < size THEN "sendElem" ELSE "range"
          ELSE /\ windows' = [windows EXCEPT ![Current].closes = @ + 1]
               /\ ppc' = "closeOuter"
               /\ UNCHANGED pcount
    /\ UNCHANGED notPartVars
    /\ UNCHANGED <<part, partSlice, partNext, partInCloses, size, pheld,
                   partitionedCloses, partConsumed, conspc, cwin>>

\* the loop sees the input closed: if count > 0 the last window is sent
PartRangeEnd ==
    /\ ppc = "range"
    /\ partInCloses > 0
    /\ ppc' = IF pcount > 0 THEN "lastWindow" ELSE "closeOuter"
    /\ UNCHANGED notPartVars
    /\ UNCHANGED <<part, partSlice, partNext, partInCloses, size, pcount,
                   pheld, windows, partitionedCloses, partConsumed, conspc,
                   cwin, partPanic>>

\* close(partitioned)
PartCloseOuter ==
    /\ ppc = "closeOuter"
    /\ partitionedCloses' = partitionedCloses + 1
    /\ partPanic' = (partPanic \/ partitionedCloses > 0)
    /\ ppc' = "done"
    /\ UNCHANGED notPartVars
    /\ UNCHANGED <<part, partSlice, partNext, partInCloses, size, pcount,
                   pheld, windows, partConsumed, conspc, cwin>>

\* the consumer's loop over a window sees it closed: back to the outer loop
PartConsumerWindowEnd ==
    /\ conspc = "window"
    /\ windows[cwin].closes > 0
    /\ conspc' = "outer"
    /\ UNCHANGED notPartVars
    /\ UNCHANGED <<part, partSlice, partNext, partInCloses, size, pcount, ppc,
                   pheld, windows, partitionedCloses, partConsumed, cwin,
                   partPanic>>

\* the consumer's loop over the outer channel sees it closed
PartConsumerOuterEnd ==
    /\ partConsumed
    /\ conspc = "outer"
    /\ partitionedCloses > 0
    /\ conspc' = "done"
    /\ UNCHANGED notPartVars
    /\ UNCHANGED <<part, partSlice, partNext, partInCloses, size, pcount, ppc,
                   pheld, windows, partitionedCloses, partConsumed, cwin,
                   partPanic>>

\* channel.go: for t := range channel with the test count == size; when
\* the test fails the iteration is slice = append(slice, t); count++
SliceRecv ==
    /\ part = "PartitionSlice"
    /\ ppc = "range"
    /\ partNext <= Len(partSlice)
    /\ pheld' = partSlice[partNext]
    /\ partNext' = partNext + 1
    /\ IF pcount = size
          THEN /\ ppc' = "sendWindow"
               /\ UNCHANGED <<windows, pcount>>
          ELSE /\ windows' = [windows EXCEPT
                                ![Current].got = Append(@, partSlice[partNext])]
               /\ pcount' = pcount + 1
               /\ UNCHANGED ppc
    /\ UNCHANGED notPartVars
    /\ UNCHANGED <<part, partSlice, partInCloses, size, partitionedCloses,
                   partConsumed, conspc, cwin, partPanic>>

\* mutation of SliceSend: the element that found the slice full is not
\* appended to the new slice
SliceSendDropsHeld ==
    /\ part = "PartitionSlice"
    /\ partConsumed
    /\ conspc = "outer"
    /\ ppc \in {"sendWindow", "lastWindow"}
    /\ partPanic' = (partPanic \/ partitionedCloses > 0)
    /\ IF ppc = "sendWindow"
          THEN /\ windows' = Append([windows EXCEPT ![Current].delivered = TRUE],
                                    NewWindow)
               /\ pcount' = 0
               /\ ppc' = "range"
          ELSE /\ windows' = [windows EXCEPT ![Current].delivered = TRUE]
               /\ ppc' = "closeOuter"
               /\ UNCHANGED pcount
    /\ UNCHANGED notPartVars
    /\ UNCHANGED <<part, partSlice, partNext, partInCloses, size, pheld,
                   partitionedCloses, partConsumed, conspc, cwin>>

\* channel.go: partitioned <- slice, taken by the consumer's loop over the
\* outer channel; inside the loop also slice = make([]T, 0, size),
\* count = 0, slice = append(slice, t) and count++
SliceSend ==
    /\ part = "PartitionSlice"
    /\ partConsumed
    /\ conspc = "outer"
    /\ ppc \in {"sendWindow", "lastWindow"}
    /\ partPanic' = (partPanic \/ partitionedCloses > 0)
    /\ IF ppc = "sendWindow"
          THEN /\ windows' = Append([windows EXCEPT ![Current].delivered = TRUE],
                                    [NewWindow EXCEPT !.got = <<pheld>>])
               /\ pcount' = 1
               /\ ppc' = "range"
          ELSE /\ windows' = [windows EXCEPT ![Current].delivered = TRUE]
               /\ ppc' = "closeOuter"
               /\ UNCHANGED pcount
    /\ UNCHANGED notPartVars
    /\ UNCHANGED <<part, partSlice, partNext, partInCloses, size, pheld,
                   partitionedCloses, partConsumed, conspc, cwin>>

PartNext ==
    \/ PartInputClose
    \/ PartRecv
    \/ PartSend
    \/ SliceRecv
    \/ SliceSend
    \/ PartCloseWindow
    \/ PartRangeEnd
    \/ PartCloseOuter
    \/ PartConsumerWindowEnd
    \/ PartConsumerOuterEnd

PartInit ==
    PartStart /\ CloneIdle /\ GenIdle /\ ParIdle /\ StageIdle /\ FoldIdle
              /\ ZipIdle /\ FlattenIdle /\ UnZipIdle /\ IterIdle

PartSpec == PartInit /\ [][PartNext]_vars

\* the goroutines of Partition, FromSlice and the consumer are scheduled
\* fairly
PartFairness ==
    /\ WF_vars(PartRecv \/ PartSend \/ SliceRecv \/ SliceSend
                \/ PartCloseWindow \/ PartRangeEnd \/ PartCloseOuter)
    /\ WF_vars(PartInputClose)
    /\ WF_vars(PartConsumerWindowEnd \/ PartConsumerOuterEnd)

PartFairSpec == PartSpec /\ PartFairness

\* the windows that were handed to the consumer, in the order of the sends
DeliveredWindows == SelectSeq(windows, LAMBDA w : w.delivered)

\* the elements of the windows ws, one window after the other
RECURSIVE FlatWindows(_)
FlatWindows(ws) ==
    IF ws = <<>> THEN <<>> ELSE Head(ws).got \o FlatWindows(Tail(ws))

(***************************************************************************)
(* C22: ToSlice(Partition(FromSlice(S), size)) of channel.go, size >= 1.   *)
(* The windows sent so far concatenate to a prefix of S; each has between  *)
(* 1 and size elements and each but the last sent has exactly size; when   *)
(* the output is closed they concatenate to S (none at all for an empty    *)
(* S) and the output was closed once; and the consumer's loop over the     *)
(* output does end.                                                        *)
(***************************************************************************)
C22_PartitionWindows ==
    /\ [](part = "PartitionSlice" /\ size >= 1 =>
            /\ IsPrefix(FlatWindows(DeliveredWindows), partSlice)
            /\ \A i \in 1 .. Len(DeliveredWindows) :
                  /\ Len(DeliveredWindows[i].got) \in 1 .. size
                  /\ i < Len(DeliveredWindows) =>
                        Len(DeliveredWindows[i].got) = size
            /\ partitionedCloses > 0 =>
                  /\ FlatWindows(DeliveredWindows) = partSlice
                  /\ partSlice = <<>> => DeliveredWindows = <<>>
                  /\ partitionedCloses = 1
            /\ ~partPanic)
    /\ (part = "PartitionSlice" /\ size >= 1 /\ partConsumed)
          ~> (conspc = "done")

C22_Witness ==
    /\ part = "PartitionSlice"
    /\ partSlice = <<1, 2, 3>>
    /\ size = 2
    /\ conspc = "done"
    /\ Len(DeliveredWindows) = 2
    /\ DeliveredWindows[1].got = <<1, 2>>
    /\ DeliveredWindows[2].got = <<3>>

(***************************************************************************)
(* C23: Partition returning a channel of channels, size >= 1, a non-empty  *)
(* input, and a consumer that ranges over the outer channel and over each  *)
(* window before it asks for the next one.  The claim: every element is    *)
(* eventually received from a window that was handed over and is closed,   *)
(* and the outer channel is eventually closed.                             *)
(***************************************************************************)
C23_WindowsEventuallyDelivered ==
    (part = "Partition" /\ size >= 1 /\ partSlice # <<>> /\ partConsumed)
        ~> /\ partitionedCloses = 1
           /\ FlatWindows(DeliveredWindows) = partSlice
           /\ \A i \in 1 .. Len(DeliveredWindows) :
                 DeliveredWindows[i].closes = 1

(***************************************************************************)
(* UnZip.  The element k of Clone's input stands for the pair              *)
(* Pair{Fst: k, Snd: k + 10}.                                              *)
(***************************************************************************)
Fst(p) == p
Snd(p) == p + 10
\* the component that the goroutine of output i sends: p.Fst on ts, p.Snd
\* on us
Component(i, p) == IF i = 1 THEN Fst(p) ELSE Snd(p)
\* goroutine i holds a pair that it has received and not yet sent on
Holding(i) == Len(uzSent[i]) < Len(got[i])

UnZipStart ==
    /\ unzip = "UnZip"
    /\ uzActive \in SUBSET {1, 2}
    /\ uzSent = [i \in 1 .. 2 |-> <<>>]
    /\ fwdpc = [i \in 1 .. 2 |-> "range"]
    /\ uzCloses = [i \in 1 .. 2 |-> 0]
    /\ uzPanic = FALSE

\* mutation of ForwarderRecv: a goroutine receives the next pair only when
\* neither goroutine holds one
ForwarderRecvLockStep(i, s) ==
    /\ closed[i] \/ (~Holding(1) /\ ~Holding(2))
    /\ Send(i, s)

\* for p := range clones[i]: goroutine i receives what a delivery goroutine
\* of Clone sends on clone i
ForwarderRecv(i, s) ==
    /\ closed[i] \/ ~Holding(i)
    /\ Send(i, s)

\* goroutine i's loop sees clone i closed
ForwarderRangeEnd(i) ==
    /\ ~Holding(i)
    /\ ConsumerSeesClosed(i)

\* ts <- p.Fst, us <- p.Snd, which a receiver takes
Forward(i) ==
    /\ unzip = "UnZip"
    /\ fwdpc[i] = "range"
    /\ Holding(i)
    /\ IF uzCloses[i] > 0
          THEN /\ uzPanic' = TRUE
               /\ uzSent' = [uzSent EXCEPT ![i] = Append(@, 0)]
          ELSE /\ i \in uzActive
               /\ uzSent' = [uzSent EXCEPT
                               ![i] = Append(@, Component(i, got[i][Len(@) + 1]))]
               /\ UNCHANGED uzPanic
    /\ UNCHANGED notUnZipVars
    /\ UNCHANGED <<unzip, uzActive, fwdpc, uzCloses>>

\* close(ts), close(us) after the loop
ForwarderClose(i) ==
    /\ unzip = "UnZip"
    /\ fwdpc[i] = "range"
    /\ seenClosed[i]
    /\ uzCloses' = [uzCloses EXCEPT ![i] = @ + 1]
    /\ uzPanic' = (uzPanic \/ uzCloses[i] > 0)
    /\ fwdpc' = [fwdpc EXCEPT ![i] = "done"]
    /\ UNCHANGED notUnZipVars
    /\ UNCHANGED <<unzip, uzActive, uzSent>>

\* the consumer of TestUnZip: ToSlice(unzippedLeft) has returned, now
\* ToSlice(unzippedRight) receives
LeftThenRight ==
    /\ unzip = "UnZip"
    /\ uzActive = {1}
    /\ uzCloses[1] > 0
    /\ uzActive' = {2}
    /\ UNCHANGED notUnZipVars
    /\ UNCHANGED <<unzip, uzSent, fwdpc, uzCloses, uzPanic>>

\* the UnZip of channel.go: one goroutine, ts and us unbuffered.  The input
\* channel carries the pairs of input and is closed after the last; count
\* is the number of pairs the goroutine has received.
SequentialStart ==
    /\ unzip = "Sequential"
    /\ input \in {Iota(n) : n \in 0 .. MaxPairs}
    /\ uzActive \in SUBSET {1, 2}
    /\ uzSent = [i \in 1 .. 2 |-> <<>>]
    /\ fwdpc = <<"range">>
    /\ uzCloses = [i \in 1 .. 2 |-> 0]
    /\ uzPanic = FALSE
    /\ numClones = 0
    /\ active = {}
    /\ count = 0
    /\ rpc = "idle"
    /\ ri = 0
    /\ waitGroups = <<>>
    /\ orders = <<>>
    /\ dpc = <<>>
    /\ dheld = <<>>
    /\ cpc = <<>>
    /\ closed = <<>>
    /\ got = <<>>
    /\ seenClosed = <<>>
    /\ clonePanic = FALSE

\* mutation of UnZipRecv: the body sends p.snd only
UnZipRecvSndOnly ==
    /\ unzip = "Sequential"
    /\ fwdpc[1] = "range"
    /\ count < Len(input)
    /\ count' = count + 1
    /\ fwdpc' = <<"sendSnd">>
    /\ UNCHANGED <<genVars, parVars, stageVars, foldVars, zipVars,
                   flattenVars, partVars, iterVars>>
    /\ UNCHANGED <<input, numClones, active, rpc, ri, waitGroups, orders, dpc,
                   dheld, cpc, closed, got, seenClosed, clonePanic>>
    /\ UNCHANGED <<unzip, uzActive, uzSent, uzCloses, uzPanic>>

\* for p := range channel: the goroutine receives the next pair
UnZipRecv ==
    /\ unzip = "Sequential"
    /\ fwdpc[1] = "range"
    /\ count < Len(input)
    /\ count' = count + 1
    /\ fwdpc' = <<"sendFst">>
    /\ UNCHANGED <<genVars, parVars, stageVars, foldVars, zipVars,
                   flattenVars, partVars, iterVars>>
    /\ UNCHANGED <<input, numClones, active, rpc, ri, waitGroups, orders, dpc,
                   dheld, cpc, closed, got, seenClosed, clonePanic>>
    /\ UNCHANGED <<unzip, uzActive, uzSent, uzCloses, uzPanic>>

\* the range loop sees the input closed and empty
UnZipRangeEnd ==
    /\ unzip = "Sequential"
    /\ fwdpc[1] = "range"
    /\ count = Len(input)
    /\ fwdpc' = <<"closeTs">>
    /\ UNCHANGED notUnZipVars
    /\ UNCHANGED <<unzip, uzActive, uzSent, uzCloses, uzPanic>>

\* ts <- p.fst, which a receiver takes
UnZipSendFst ==
    /\ unzip = "Sequential"
    /\ fwdpc[1] = "sendFst"
    /\ 1 \in uzActive
    /\ uzSent' = [uzSent EXCEPT ![1] = Append(@, Fst(input[count]))]
    /\ fwdpc' = <<"sendSnd">>
    /\ UNCHANGED notUnZipVars
    /\ UNCHANGED <<unzip, uzActive, uzCloses, uzPanic>>

\* us <- p.snd, which a receiver takes
UnZipSendSnd ==
    /\ unzip = "Sequential"
    /\ fwdpc[1] = "sendSnd"
    /\ 2 \in uzActive
    /\ uzSent' = [uzSent EXCEPT ![2] = Append(@, Snd(input[count]))]
    /\ fwdpc' = <<"range">>
    /\ UNCHANGED notUnZipVars
    /\ UNCHANGED <<unzip, uzActive, uzCloses, uzPanic>>

\* close(ts)
UnZipCloseTs ==
    /\ unzip = "Sequential"
    /\ fwdpc[1] = "closeTs"
    /\ uzCloses' = [uzCloses EXCEPT ![1] = @ + 1]
    /\ fwdpc' = <<"closeUs">>
    /\ UNCHANGED notUnZipVars
    /\ UNCHANGED <<unzip, uzActive, uzSent, uzPanic>>

\* close(us)
UnZipCloseUs ==
    /\ unzip = "Sequential"
    /\ fwdpc[1] = "closeUs"
    /\ uzCloses' = [uzCloses EXCEPT ![2] = @ + 1]
    /\ fwdpc' = <<"done">>
    /\ UNCHANGED notUnZipVars
    /\ UNCHANGED <<unzip, uzActive, uzSent, uzPanic>>

\* the goroutine of the UnZip of channel.go
UnZipGoroutine ==
    \/ UnZipRecv
    \/ UnZipRangeEnd
    \/ UnZipSendFst
    \/ UnZipSendSnd
    \/ UnZipCloseTs
    \/ UnZipCloseUs

UnZipNext ==
    \/ UnZipRecv
    \/ UnZipRangeEnd
    \/ UnZipSendFst
    \/ UnZipSendSnd
    \/ UnZipCloseTs
    \/ UnZipCloseUs
    \/ LeftThenRight
    \/ ReaderRecv
    \/ ReaderEnd
    \/ ReaderSpawn
    \/ ReaderSpawnCloser
    \/ \E i \in CloneIds, s \in Orders : Take(i, s)
    \/ \E i \in CloneIds, s \in Orders : PutBack(i, s)
    \/ \E i \in CloneIds, s \in Orders : ForwarderRecv(i, s)
    \/ \E i \in CloneIds, s \in Orders : Advance(i, s)
    \/ \E i \in CloneIds, s \in Orders : Exit(i, s)
    \/ \E i \in CloneIds : CloserWait(i)
    \/ \E i \in CloneIds : CloserClose(i)
    \/ \E i \in CloneIds : ForwarderRangeEnd(i)
    \/ \E i \in CloneIds : Forward(i)
    \/ \E i \in CloneIds : ForwarderClose(i)

UnZipInit ==
    /\ \/ /\ CloneStart
          /\ input \in {Iota(n) : n \in 0 .. MaxPairs}
          /\ numClones = 2
          /\ active = {1, 2}
          /\ UnZipStart
       \/ SequentialStart
    /\ GenIdle /\ ParIdle /\ StageIdle /\ FoldIdle /\ ZipIdle /\ FlattenIdle
    /\ PartIdle /\ IterIdle

UnZipSpec == UnZipInit /\ [][UnZipNext]_vars

\* the steps of a delivery goroutine other than taking the ticket, its send
\* being received by the goroutine that ranges over the clone
AfterTakeUnZip(i, s) ==
    PutBack(i, s) \/ ForwarderRecv(i, s) \/ Advance(i, s) \/ Exit(i, s)

\* the scheduling of Clone, and every goroutine of UnZip and the consumer
\* take the steps they can take
UnZipFairness ==
    /\ WF_vars(UnZipGoroutine)
    /\ WF_vars(Reader)
    /\ WF_vars(LeftThenRight)
    /\ \A i \in 1 .. 2 :
          /\ WF_vars(i \in CloneIds /\ Closer(i))
          /\ WF_vars(i \in CloneIds /\ ForwarderRangeEnd(i))
          /\ WF_vars(i \in CloneIds /\ (Forward(i) \/ ForwarderClose(i)))
          /\ \A s \in 0 .. (MaxPairs - 1) :
                /\ SF_vars(i \in CloneIds /\ s \in Orders /\ Take(i, s))
                /\ WF_vars(i \in CloneIds /\ s \in Orders
                              /\ AfterTakeUnZip(i, s))

UnZipFairSpec == UnZipSpec /\ UnZipFairness

\* the first components and the second components of the pairs of q
Firsts(q) == [k \in 1 .. Len(q) |-> Fst(q[k])]
Seconds(q) == [k \in 1 .. Len(q) |-> Snd(q[k])]

(***************************************************************************)
(* C24: UnZip over the pairs of a slice.  What was received from the left  *)
(* output is a prefix of the first components in the order of the input,   *)
(* what was received from the right output a prefix of the second          *)
(* components; an output is closed once and only after all its components  *)
(* were received; no send hits a closed channel.  With a consumer of both  *)
(* outputs, and with the consumer that receives from the left output       *)
(* until it is closed and only then from the right output, both outputs    *)
(* eventually are closed with every component received.                    *)
(***************************************************************************)
C24_UnZipLeftThenRight ==
    /\ [](unzip = "UnZip" =>
            /\ IsPrefix(uzSent[1], Firsts(input))
            /\ IsPrefix(uzSent[2], Seconds(input))
            /\ uzCloses[1] > 0 => (uzCloses[1] = 1 /\ uzSent[1] = Firsts(input))
            /\ uzCloses[2] > 0 => (uzCloses[2] = 1 /\ uzSent[2] = Seconds(input))
            /\ uzActive = {2} /\ uzSent[1] # <<>> => uzCloses[1] = 1
            /\ ~uzPanic
            /\ ~clonePanic)
    /\ (unzip = "UnZip" /\ uzActive \in {{1}, {1, 2}})
          ~> /\ uzCloses = <<1, 1>>
             /\ uzSent = <<Firsts(input), Seconds(input)>>

C24_Witness ==
    /\ unzip = "UnZip"
    /\ input = <<1, 2>>
    /\ uzActive = {2}
    /\ uzSent = << <<1, 2>>, <<11, 12>> >>
    /\ uzCloses = <<1, 1>>

(***************************************************************************)
(* Every combinator that returns channels, each on the inputs and with the *)
(* consumers of its own section.  A pipeline is such stages connected by   *)
(* channels; which goroutine closes a channel, and whether a goroutine     *)
(* sends on a closed channel, is decided inside one stage.                 *)
(***************************************************************************)
PipelineInit ==
    \/ CloneInit
    \/ GenInit
    \/ ParInit
    \/ StageInit
    \/ ZipInit
    \/ FlattenInit
    \/ PartInit
    \/ UnZipInit

PipelineNext ==
    \/ rpc # "idle" /\ unzip = "none" /\ CloneNext
    \/ gpc # "idle" /\ GenNext
    \/ variant # "none" /\ ParNext
    \/ stage # "none" /\ StageNext
    \/ zip # "none" /\ ZipNext
    \/ flatten # "none" /\ FlattenNext
    \/ part # "none" /\ PartNext
    \/ unzip # "none" /\ UnZipNext

PipelineSpec == PipelineInit /\ [][PipelineNext]_vars

Iters == {"Limit", "Join", "FoldRight", "Concat"}
\* the separators tried: "," and ", "
Seps == {<<44>>, <<44, 32>>}
\* the string the element t stands for
StringOf(t) == <<t>>
\* the initial values tried for FoldRight: "" and "init"
Initials == {<<>>, <<9>>}
\* the calls in progress at which the goroutine's stack is exhausted and the
\* runtime ends the program (fatal error: stack overflow)
MaxStack == 4
\* a call of FoldRight that has just been entered: result := u, and the
\* range over itr has not passed an element yet
EnteredCall == [next |-> 1, t |-> 0, result |-> itArgs.u]

IterStart ==
    /\ iter \in Iters
    /\ itSeq \in Slices(MaxSliceLen)
    /\ itArgs \in (CASE iter = "Limit" -> [max : 0 .. MaxLimit]
                     [] iter = "Join" -> [sep : Seps]
                     [] iter = "FoldRight" -> [u : Initials]
                     [] iter = "Concat" ->
                           [itr2 : {RightSlice(n) : n \in 0 .. MaxLimit}])
    /\ itNext = 1
    /\ ipc = "loop"
    /\ itLocals = (CASE iter = "Limit" -> [count |-> 0]
                     [] iter = "Join" -> [first |-> TRUE, result |-> <<>>]
                     [] iter = "FoldRight" ->
                           [frames |-> <<EnteredCall>>, fcalls |-> 0]
                     [] iter = "Concat" -> <<>>)
    /\ yielded = <<>>
    /\ stopAt \in (CASE iter = "Limit" -> 0 .. MaxSliceLen
                     [] iter = "Concat" -> 0 .. MaxSliceLen + MaxLimit
                     [] OTHER -> {0})
    /\ itReturned = <<>>

\* the call of yield that is being made returns false
YieldStops == stopAt > 0 /\ Len(yielded) + 1 = stopAt

\* mutation of LimitIterate: the test is count > max
LimitIterateOneMore ==
    /\ iter = "Limit"
    /\ ipc = "loop"
    /\ itNext <= Len(itSeq)
    /\ itNext' = itNext + 1
    /\ IF itLocals.count > itArgs.max
          THEN /\ ipc' = "done"
               /\ UNCHANGED <<yielded, itLocals>>
          ELSE /\ yielded' = Append(yielded, itSeq[itNext])
               /\ IF YieldStops
                     THEN /\ ipc' = "done"
                          /\ UNCHANGED itLocals
                     ELSE /\ itLocals' = [itLocals EXCEPT !.count = @ + 1]
                          /\ UNCHANGED ipc
    /\ UNCHANGED notIterVars
    /\ UNCHANGED <<iter, itSeq, itArgs, stopAt, itReturned>>

\* Limit, one iteration: the source passes the next element t to the loop
\* body: if count == max || !yield(t) { break }; count++
LimitIterate ==
    /\ iter = "Limit"
    /\ ipc = "loop"
    /\ itNext <= Len(itSeq)
    /\ itNext' = itNext + 1
    /\ IF itLocals.count = itArgs.max
          THEN /\ ipc' = "done"
               /\ UNCHANGED <<yielded, itLocals>>
          ELSE /\ yielded' = Append(yielded, itSeq[itNext])
               /\ IF YieldStops
                     THEN /\ ipc' = "done"
                          /\ UNCHANGED itLocals
                     ELSE /\ itLocals' = [itLocals EXCEPT !.count = @ + 1]
                          /\ UNCHANGED ipc
    /\ UNCHANGED notIterVars
    /\ UNCHANGED <<iter, itSeq, itArgs, stopAt, itReturned>>

\* Limit: the source has no further element, the loop ends
LimitLoopEnd ==
    /\ iter = "Limit"
    /\ ipc = "loop"
    /\ itNext > Len(itSeq)
    /\ ipc' = "done"
    /\ UNCHANGED notIterVars
    /\ UNCHANGED <<iter, itSeq, itArgs, itNext, itLocals, yielded, stopAt,
                   itReturned>>

\* Join, one iteration: if first { first = false } else { t += sep };
\* result += t
JoinIterate ==
    /\ iter = "Join"
    /\ ipc = "loop"
    /\ itNext <= Len(itSeq)
    /\ itNext' = itNext + 1
    /\ itLocals' =
          [first |-> FALSE,
           result |-> itLocals.result \o
                      (IF itLocals.first THEN StringOf(itSeq[itNext])
                       ELSE StringOf(itSeq[itNext]) \o itArgs.sep)]
    /\ UNCHANGED notIterVars
    /\ UNCHANGED <<iter, itSeq, itArgs, ipc, yielded, stopAt, itReturned>>

\* Join: the loop ends, return result
JoinReturn ==
    /\ iter = "Join"
    /\ ipc = "loop"
    /\ itNext > Len(itSeq)
    /\ itReturned' = itLocals.result
    /\ ipc' = "done"
    /\ UNCHANGED notIterVars
    /\ UNCHANGED <<iter, itSeq, itArgs, itNext, itLocals, yielded, stopAt>>

\* the folding function of the tests: strconv.Itoa(i) + s
Prepend(t, s) == StringOf(t) \o s

\* FoldRight, one iteration of the loop of the innermost call: the source
\* passes it the next element t, and the body calls FoldRight(itr, f, u)
\* with the same itr, which the new call ranges over from its first element
IterFoldRightIterate ==
    /\ iter = "FoldRight"
    /\ ipc = "loop"
    /\ LET stack == itLocals.frames
           top == Len(stack)
       IN  /\ stack[top].next <= Len(itSeq)
           /\ IF top < MaxStack
                 THEN /\ itLocals' =
                           [itLocals EXCEPT !.frames =
                              Append([stack EXCEPT
                                        ![top].t = itSeq[stack[top].next],
                                        ![top].next = @ + 1],
                                     EnteredCall)]
                      /\ UNCHANGED ipc
                 ELSE /\ ipc' = "overflow"
                      /\ UNCHANGED itLocals
    /\ UNCHANGED notIterVars
    /\ UNCHANGED <<iter, itSeq, itArgs, itNext, yielded, stopAt, itReturned>>

\* FoldRight: the loop of the innermost call ends, return result; the
\* caller assigns result = f(t, <the value returned>)
IterFoldRightReturn ==
    /\ iter = "FoldRight"
    /\ ipc = "loop"
    /\ LET stack == itLocals.frames
           top == Len(stack)
       IN  /\ stack[top].next > Len(itSeq)
           /\ IF top = 1
                 THEN /\ itReturned' = stack[top].result
                      /\ ipc' = "done"
                      /\ UNCHANGED itLocals
                 ELSE /\ itLocals' =
                           [frames |->
                              [SubSeq(stack, 1, top - 1) EXCEPT
                                 ![top - 1].result =
                                     Prepend(stack[top - 1].t,
                                             stack[top].result)],
                            fcalls |-> itLocals.fcalls + 1]
                      /\ UNCHANGED <<ipc, itReturned>>
    /\ UNCHANGED notIterVars
    /\ UNCHANGED <<iter, itSeq, itArgs, itNext, yielded, stopAt>>

\* the call of yield that is being made returns false: the consumer stops
\* at its stopAt-th call, and says so again when it is called after that
YieldRefuses == stopAt > 0 /\ Len(yielded) + 1 >= stopAt

\* Concat, one iteration of the first loop: if !yield(t) { break }; the
\* break leaves the first loop, and the second loop follows
ConcatIterate ==
    /\ iter = "Concat"
    /\ ipc = "loop"
    /\ itNext <= Len(itSeq)
    /\ yielded' = Append(yielded, itSeq[itNext])
    /\ IF YieldRefuses
          THEN /\ ipc' = "loop2"
               /\ itNext' = 1
          ELSE /\ itNext' = itNext + 1
               /\ UNCHANGED ipc
    /\ UNCHANGED notIterVars
    /\ UNCHANGED <<iter, itSeq, itArgs, itLocals, stopAt, itReturned>>

\* Concat: itr1 has no further element, the second loop follows
ConcatLoopEnd ==
    /\ iter = "Concat"
    /\ ipc = "loop"
    /\ itNext > Len(itSeq)
    /\ ipc' = "loop2"
    /\ itNext' = 1
    /\ UNCHANGED notIterVars
    /\ UNCHANGED <<iter, itSeq, itArgs, itLocals, yielded, stopAt,
                   itReturned>>

\* Concat, one iteration of the second loop: if !yield(t) { break }
ConcatIterate2 ==
    /\ iter = "Concat"
    /\ ipc = "loop2"
    /\ itNext <= Len(itArgs.itr2)
    /\ yielded' = Append(yielded, itArgs.itr2[itNext])
    /\ itNext' = itNext + 1
    /\ ipc' = IF YieldRefuses THEN "done" ELSE ipc
    /\ UNCHANGED notIterVars
    /\ UNCHANGED <<iter, itSeq, itArgs, itLocals, stopAt, itReturned>>

\* Concat: itr2 has no further element, the function returns
ConcatLoop2End ==
    /\ iter = "Concat"
    /\ ipc = "loop2"
    /\ itNext > Len(itArgs.itr2)
    /\ ipc' = "done"
    /\ UNCHANGED notIterVars
    /\ UNCHANGED <<iter, itSeq, itArgs, itNext, itLocals, yielded, stopAt,
                   itReturned>>

IterNext ==
    \/ ConcatIterate
    \/ ConcatLoopEnd
    \/ ConcatIterate2
    \/ ConcatLoop2End
    \/ LimitIterate
    \/ LimitLoopEnd
    \/ JoinIterate
    \/ JoinReturn
    \/ IterFoldRightIterate
    \/ IterFoldRightReturn

\* the one goroutine keeps running while it can
IterFairness == WF_vars(IterNext)

IterInit ==
    IterStart /\ CloneIdle /\ GenIdle /\ ParIdle /\ StageIdle /\ FoldIdle
              /\ ZipIdle /\ FlattenIdle /\ PartIdle /\ UnZipIdle

IterSpec == IterInit /\ [][IterNext]_vars

IterFairSpec == IterSpec /\ IterFairness


\* the sequential stages of package channel and the functions of package
\* iterator, each on any of its inputs
LimitInit == StageInit \/ IterInit

LimitNext ==
    \/ stage # "none" /\ StageNext
    \/ iter # "none" /\ IterNext

LimitSpec == LimitInit /\ [][LimitNext]_vars

LimitFairSpec == LimitSpec /\ StageFairness /\ IterFairness

\* the first n elements of q, all of q when it has fewer
FirstN(q, n) == SubSeq(q, 1, Min(n, Len(q)))

(***************************************************************************)
(* C29: Limit of package channel behind FromSlice(S), and Limit of package *)
(* iterator over slices.Values(S).  What was received from the output, or  *)
(* passed to yield, is a prefix of the first min(max, len(S)) elements of  *)
(* S; when the channel output is closed, or the iterator's loop has ended  *)
(* with a consumer that never stops, it is exactly those elements; the     *)
(* channel output is closed once, and ToSlice on it returns.               *)
(***************************************************************************)
C29_LimitResult ==
    /\ [](stage = "Limit" =>
            /\ IsPrefix(outGot, FirstN(slice, limitMax))
            /\ outCloses > 0 =>
                  (outGot = FirstN(slice, limitMax) /\ outCloses = 1))
    /\ [](iter = "Limit" =>
            /\ IsPrefix(yielded, FirstN(itSeq, itArgs.max))
            /\ (ipc = "done" /\ stopAt = 0) =>
                  yielded = FirstN(itSeq, itArgs.max)
            /\ stopAt > 0 => Len(yielded) <= stopAt)
    /\ (stage = "Limit" /\ "mapped" \in consumed) ~> toSliceDone

C29_Witness ==
    /\ iter = "Limit"
    /\ itSeq = <<3, 1, 2>>
    /\ itArgs.max = 2
    /\ stopAt = 0
    /\ ipc = "done"
    /\ yielded = <<3, 1>>
    /\ itNext = 4


\* the strings of the elements of q in order, with sep between every two
\* consecutive ones and nowhere else
RECURSIVE Interleave(_, _)
Interleave(q, sep) ==
    IF Len(q) = 0 THEN <<>>
    ELSE IF Len(q) = 1 THEN StringOf(q[1])
    ELSE StringOf(q[1]) \o sep \o Interleave(Tail(q), sep)

(***************************************************************************)
(* C30: iterator.Join(seq, sep).  The claim: the value returned is the     *)
(* elements of seq in order with sep between every two consecutive         *)
(* elements and nowhere else; the empty string for an empty seq, the       *)
(* element itself for a single element.                                    *)
(***************************************************************************)
C30_JoinInterleaves ==
    (iter = "Join" /\ ipc = "done") =>
        itReturned = Interleave(itSeq, itArgs.sep)


\* f(x1, f(x2, ... f(xn, u))) for q = [x1..xn] and f the prepending of the
\* element's string
RECURSIVE PrependAll(_, _)
PrependAll(q, u) ==
    IF q = <<>> THEN u ELSE Prepend(Head(q), PrependAll(Tail(q), u))

(***************************************************************************)
(* C31: iterator.FoldRight(seq, f, u) over slices.Values of [x1..xn].  The *)
(* claim: the call never exhausts the stack, it returns, the value it      *)
(* returns is f(x1, f(x2, ... f(xn, u))), and f was called n times.        *)
(***************************************************************************)
C31_FoldRightReturns ==
    /\ [](iter = "FoldRight" => ipc # "overflow")
    /\ [](iter = "FoldRight" /\ ipc = "done" =>
            /\ itReturned = PrependAll(itSeq, itArgs.u)
            /\ itLocals.fcalls = Len(itSeq))
    /\ (iter = "FoldRight") ~> (ipc = "done")

\* the delivery goroutines of clone i that hold its ticket: they have
\* received from orders[i] and not sent on it since
TicketHolders(i) ==
    {s \in Orders : dpc[i][s] \in {"putback", "send", "advance"}}

\* the delivery goroutines of clone i between the receive of the matching
\* ticket and the send of order + 1
PastGate(i) == {s \in Orders : dpc[i][s] \in {"send", "advance"}}

\* the ticket of clone i: the value in orders[i], or the one taken from it
\* by the goroutine that holds it
TicketOf(i) ==
    IF orders[i] # <<>> THEN Head(orders[i])
    ELSE LET s == CHOOSE s \in TicketHolders(i) : TRUE IN dheld[i][s]

(***************************************************************************)
(* C32: Clone's ticket gate.  For each clone i there is one ticket: it is  *)
(* in orders[i] (at most one value) or held by one delivery goroutine.  A  *)
(* goroutine with sequence number s that sends, or has sent, on clone i    *)
(* took the ticket s; at most one goroutine per clone is past the gate; a  *)
(* goroutine that took another ticket puts back the value it took; the     *)
(* ticket in orders[i] is the number of elements delivered on clone i, and *)
(* the ticket never decreases.                                             *)
(***************************************************************************)
C32_TicketGate ==
    /\ [](\A i \in CloneIds :
            /\ Len(orders[i]) + Cardinality(TicketHolders(i)) = 1
            /\ Cardinality(PastGate(i)) <= 1
            /\ \A s \in Orders :
                  /\ (dpc[i][s] = "send" \/ Delivered(i, s)) =>
                         dheld[i][s] = s
                  /\ dpc[i][s] = "send" => Len(got[i]) = s
                  /\ dpc[i][s] = "putback" =>
                         (dheld[i][s] # s /\ dheld[i][s] = Len(got[i]))
            /\ orders[i] # <<>> => Head(orders[i]) = Len(got[i]))
    /\ [][\A i \in CloneIds :
            /\ TicketOf(i)' >= TicketOf(i)
            /\ \A s \in Orders :
                  (dpc[i][s] = "putback" /\ dpc'[i][s] = "take") =>
                      orders'[i] = <<dheld[i][s]>>]_vars

C32_Witness ==
    /\ numClones = 2
    /\ Len(input) = 3
    /\ got[1] = <<1>>
    /\ dpc[1][2] = "putback"
    /\ dheld[1][2] = 1
    /\ dpc[1][1] = "take"
    /\ orders[1] = <<>>

(***************************************************************************)
(* C34: Zip on inputs fed and closed by FromSlice, of lengths m and n.     *)
(* Every step receives from chan1 and then from chan2, whatever the first  *)
(* receive reported.  Zip never consumes more than min(m, n+1) elements of *)
(* chan1 and min(n, m+1) elements of chan2; when its loop has ended it has *)
(* consumed exactly that many, so one element of the longer input that is  *)
(* in no pair was consumed; and with a receiver on zipped the loop ends.   *)
(***************************************************************************)
C34_ZipConsumesOneMore ==
    /\ [](zip = "Zip" /\ silent = {} =>
            /\ leftNext - 1 <= Min(Len(left), Len(right) + 1)
            /\ rightNext - 1 <= Min(Len(right), Len(left) + 1)
            /\ zpc \in {"close", "done"} =>
                  /\ leftNext - 1 = Min(Len(left), Len(right) + 1)
                  /\ rightNext - 1 = Min(Len(right), Len(left) + 1)
                  /\ zippedGot = PairsOf(left, right))
    /\ [][(zip = "Zip" /\ zpc = "recv1" /\ zpc' # zpc) => zpc' = "recv2"]_vars
    /\ (zip = "Zip" /\ silent = {} /\ zipConsumed) ~> (zpc = "done")

C34_Witness ==
    /\ zip = "Zip"
    /\ silent = {}
    /\ left = <<1>>
    /\ right = <<11, 12, 13>>
    /\ zpc = "done"
    /\ ~ok1
    /\ zu = 12
    /\ leftNext = 2
    /\ rightNext = 3
    /\ zippedGot = <<<<1, 11>>>>

(***************************************************************************)
(* C35: Limit(in, max) behind FromSlice.  Limit leaves its loop only at    *)
(* the element it receives after max elements were forwarded: it never     *)
(* consumes more than min(len(in), max+1) elements, and when it has ended  *)
(* it has consumed exactly that many and forwarded the first min(len(in),  *)
(* max).  It is at, or past, the close of its output only when it has      *)
(* received the (max+1)-th element or seen its input closed: while the     *)
(* input has delivered max elements and is open, the output stays open     *)
(* although all max elements were forwarded.                               *)
(***************************************************************************)
C35_LimitStopsOneLate ==
    /\ [](stage = "Limit" =>
            /\ Len(calls) <= Min(Len(slice), limitMax + 1)
            /\ stpc \in {"closeOut", "done"} =>
                  /\ Len(calls) = limitMax + 1 \/ channelCloses > 0
                  /\ Len(calls) = Min(Len(slice), limitMax + 1)
            /\ outCloses > 0 => stpc = "done"
            /\ (Len(calls) <= limitMax /\ channelCloses = 0) =>
                  (outCloses = 0 /\ stpc = "range"))
    /\ (stage = "Limit" /\ "mapped" \in consumed) ~>
          (stpc = "done" /\ outGot = FirstN(slice, limitMax))

C35_Witness ==
    /\ stage = "Limit"
    /\ slice = <<3, 1>>
    /\ limitMax = 2
    /\ outGot = <<3, 1>>
    /\ fromNext = 3
    /\ channelCloses = 0
    /\ stpc = "range"
    /\ outCloses = 0

\* the values received from the generator's output: by the consumers and
\* by the calls of stop
RECURSIVE ValuesOfConsumers(_)
ValuesOfConsumers(j) ==
    IF j = 0 THEN 0 ELSE kvalues[j] + ValuesOfConsumers(j - 1)

ValuesReceived ==
    ValuesOfConsumers(MaxConsumers)
        + Cardinality({k \in StopIds : sres[k] = "value"})

\* supplier cannot be called more often than there are receives, plus once
MostSupplied == MaxConsumers * MaxRecv + MaxStops + 1

(***************************************************************************)
(* C36: Generate.  Every value supplier returned has been received from    *)
(* the output, except the one the goroutine is sending; so when the        *)
(* goroutine has terminated supplier was called as often as values were    *)
(* received, by the consumers and by the calls of stop together.  A call   *)
(* of stop receives one value or finds the output closed.  From a moment   *)
(* at which the flag is cleared on, supplier is called at most once.       *)
(***************************************************************************)
C36_SuppliedAreReceived ==
    /\ [](gpc # "idle" =>
            /\ supplied = ValuesReceived + (IF gpc = "send" THEN 1 ELSE 0)
            /\ gpc \in {"close", "done"} => supplied = ValuesReceived
            /\ \A k \in StopIds :
                  (spc[k] = "returned") = (sres[k] \in {"value", "closed"}))
    /\ \A n \in 0 .. MostSupplied :
          [](gpc # "idle" /\ ~keepGoing /\ supplied = n
                => [](supplied <= n + 1))

C36_Witness ==
    /\ gpc = "done"
    /\ stopCalls = 2
    /\ supplied = 3
    /\ sres[1] = "value"
    /\ sres[2] = "closed"
    /\ ValuesOfConsumers(MaxConsumers) = 2

\* p holds of every element of q; p holds of some element of q
AllHold(q) == \A k \in DOMAIN q : P(q[k])
SomeHolds(q) == \E k \in DOMAIN q : P(q[k])

\* the result is settled by the bools received so far: a false for
\* AllMatch, a true for AnyMatch
Determined == stage \in Matches /\ buf # <<MatchInitial>>

(***************************************************************************)
(* C37: AllMatch(in, p) and AnyMatch(in, p) behind FromSlice.  They return *)
(* only when the input has been closed and p has been called on every      *)
(* element, once each and in order, also when the result was determined    *)
(* by an earlier element; while the input is open they do not return.      *)
(* The value returned is whether p holds of all, or of some, elements.     *)
(* With an input that is closed they do return.                            *)
(***************************************************************************)
C37_MatchesDoNotShortCircuit ==
    /\ [](stage \in Matches =>
            /\ IsPrefix(calls, slice)
            /\ channelCloses = 0 => ~toSliceDone
            /\ toSliceDone =>
                  /\ calls = slice
                  /\ outCloses = 1
                  /\ Len(outGot) = Len(slice)
                  /\ stage = "AllMatch" => buf = <<BoolOf(AllHold(slice))>>
                  /\ stage = "AnyMatch" => buf = <<BoolOf(SomeHolds(slice))>>)
    /\ [][(Determined /\ ~toSliceDone /\ channelCloses = 0) =>
             ~toSliceDone']_vars
    /\ (stage \in Matches) ~> toSliceDone

C37_Witness ==
    /\ stage = "AllMatch"
    /\ slice = <<1, 2, 2>>
    /\ calls = <<1, 2, 2>>
    /\ outGot = <<0, 1, 1>>
    /\ buf = <<0>>
    /\ toSliceDone

C39_ConcatStopsYielding ==
    (iter = "Concat" /\ stopAt > 0) =>
        /\ Len(yielded) <= stopAt
        /\ stopAt <= Len(itSeq) => IsPrefix(yielded, itSeq)

\* the delivery goroutines of clone i that were spawned and have not returned
Pending(i) == {s \in Orders : dpc[i][s] \notin {"none", "done"}}

(***************************************************************************)
(* C33: Clone with a clone i that nobody receives from.  The reader does   *)
(* not wait for any consumer: it receives every element of the input and   *)
(* spawns a delivery goroutine per clone for it, and reaches its end.      *)
(* Nothing is delivered on clone i and no delivery goroutine of clone i    *)
(* returns, so the goroutines pending for clone i are as many as elements  *)
(* were read, whatever was received from the other clones, and clone i is  *)
(* never closed when the input has an element (with an empty input there  *)
(* is no delivery goroutine and every clone is closed).  In the end the    *)
(* goroutine of the first element holds the ticket, blocked in its send on *)
(* clone i, and the goroutines of the other elements are in the ticket     *)
(* loop, waiting for the ticket.                                           *)
(***************************************************************************)
C33_StalledCloneAccumulates ==
    /\ [](\A i \in CloneIds \ active :
            /\ got[i] = <<>>
            /\ input # <<>> => (~closed[i] /\ cpc[i] \in {"none", "wait"})
            /\ Cardinality(Pending(i)) = count + (IF rpc = "spawn" /\ ri > i
                                                     THEN 1 ELSE 0)
            /\ waitGroups[i] = Cardinality(Pending(i))
            /\ \A s \in Orders :
                  /\ dpc[i][s] \in {"none", "take", "putback", "send"}
                  /\ dpc[i][s] = "send" => s = 0)
    /\ (rpc # "idle") ~> (rpc = "done" /\ count = Len(input))
    /\ \A i \in 1 .. MaxClones :
          (i \in CloneIds \ active /\ input # <<>>) ~>
              [](/\ i \in CloneIds /\ input # <<>>
                 /\ rpc = "done"
                 /\ Cardinality(Pending(i)) = Len(input)
                 /\ dpc[i][0] = "send"
                 /\ \A s \in Orders \ {0} : dpc[i][s] = "take")

C33_Witness ==
    /\ numClones = 2
    /\ active = {1}
    /\ Len(input) = 3
    /\ rpc = "done"
    /\ got[1] = input
    /\ closed[1]
    /\ got[2] = <<>>
    /\ ~closed[2]
    /\ waitGroups[2] = 3
    /\ dpc[2][0] = "send"
    /\ dpc[2][1] = "take"
    /\ dpc[2][2] = "take"

====
